---------------------------- MODULE Spec2Model ----------------------------
(***************************************************************************)
(* Security-audit scripts of the router repository:                        *)
(*   scripts/security-audit/owasp-top10-tests.py  (class OWASPTop10Tester) *)
(*   scripts/security-audit/security-scanner.py   (class SecurityScanner)  *)
(*                                                                         *)
(* A finding is a record [owasp_category, severity, title]; a scanner      *)
(* vulnerability is a record [severity, title].  description, evidence and *)
(* timestamp are free text / clock values no decision of the code reads.   *)
(***************************************************************************)
EXTENDS Integers, Sequences, FiniteSets, TLC

VARIABLES
    prog,             \* which script runs: "owasp" or "scanner"
    base_url,         \* self.base_url (its scheme is what the code reads)
    auth_token,       \* self.auth_token
    profile,          \* the target: the reply it gives to every request ...
    focus,            \* ... except during this test method, where it may reply anything
    session_headers,  \* self.session.headers
    request_headers,  \* the headers of the last request sent
    findings,         \* OWASPTop10Tester.findings
    vulnerabilities,  \* SecurityScanner.vulnerabilities
    phase,            \* position of main(): "collect"/"scan", "report", "exit", "done"
    test_index,       \* position of the dispatch loop in test_methods
    step,             \* position inside the running test method ("idle": not entered)
    loc,              \* the local variables of the running test method
    threads,          \* the worker threads of test_a04_insecure_design
    hung,             \* a request was sent that never returns
    invoked,          \* the test methods entered so far, in order
    dispatch_errors,  \* the test methods whose exception the dispatch loop caught
    report,           \* the dict returned by generate_owasp_report / generate_report
    exit_code         \* the process exit status

configVars == <<prog, base_url, auth_token, profile, focus>>
probeVars == <<session_headers, request_headers, test_index, step, loc, threads,
               hung, invoked, dispatch_errors>>
vars == <<prog, base_url, auth_token, profile, focus, session_headers, request_headers,
          findings, vulnerabilities, phase, test_index, step, loc, threads, hung,
          invoked, dispatch_errors, report, exit_code>>

-----------------------------------------------------------------------------
(* Bounds of the model *)

\* longest list of findings built by log_finding in the scoring specification
MaxFindings == 2
\* longest list of vulnerabilities appended after the initial run of equal ones
MaxVulns == 2
\* longest initial run of equal-severity vulnerabilities (11 CRITICAL pass the floor)
MaxBulk == 11

-----------------------------------------------------------------------------
(* Vocabulary of the two scripts *)

Severities == {"CRITICAL", "HIGH", "MEDIUM", "LOW", "INFO"}

\* category_names.keys(), in dict (insertion) order
CategoryOrder ==
    << "A01:2021", "A02:2021", "A03:2021", "A04:2021", "A05:2021",
       "A06:2021", "A07:2021", "A08:2021", "A09:2021", "A10:2021" >>

Categories == { CategoryOrder[i] : i \in 1..Len(CategoryOrder) }

total_categories == 10

NoReport == [kind |-> "none"]
NoExit == 0 - 1

Finding(cat, sev, title) == [owasp_category |-> cat, severity |-> sev, title |-> title]
Vulnerability(sev, title) == [severity |-> sev, title |-> title]

Max(a, b) == IF a >= b THEN a ELSE b

RECURSIVE Rep(_, _)
Rep(x, n) == IF n = 0 THEN <<>> ELSE <<x>> \o Rep(x, n - 1)

RECURSIVE Concat(_)
Concat(ss) == IF ss = <<>> THEN <<>> ELSE Head(ss) \o Concat(Tail(ss))

-----------------------------------------------------------------------------
(* OWASPTop10Tester: scoring *)

\* the fixed remediation bullets of generate_owasp_recommendations
OwaspBullets ==
    [ c \in Categories |->
        CASE c = "A01:2021" -> << "[lock] Implement proper access control checks for all operations",
                                  "[lock-key] Use role-based access control (RBAC) consistently",
                                  "[shield] Validate user permissions at the API level" >>
          [] c = "A02:2021" -> << "[lock-key] Enforce HTTPS for all communications",
                                  "[key] Use strong cryptographic algorithms (AES-256, RSA-2048+)",
                                  "[shield] Implement proper key management" >>
          [] c = "A03:2021" -> << "[syringe] Use parameterized queries to prevent SQL injection",
                                  "[shield] Implement input validation and sanitization",
                                  "[magnifier] Use GraphQL query complexity analysis" >>
          [] c = "A04:2021" -> << "[crane] Implement proper business logic validation",
                                  "[cycle] Add concurrency controls for critical operations",
                                  "[clipboard] Conduct threat modeling for business processes" >>
          [] c = "A05:2021" -> << "[gear] Disable GraphQL introspection in production",
                                  "[wrench] Remove verbose error messages",
                                  "[shield] Implement security headers and configurations" >>
          [] c = "A06:2021" -> << "[package] Keep all dependencies up to date",
                                  "[magnifier] Regular vulnerability scanning of components",
                                  "[forbidden] Remove unused dependencies and features" >>
          [] c = "A07:2021" -> << "[lock-key] Implement strong authentication mechanisms",
                                  "[shield] Add brute force protection",
                                  "[clock] Use appropriate session timeouts" >>
          [] c = "A08:2021" -> << "[check] Implement JWT signature verification",
                                  "[magnifier] Add data integrity checks",
                                  "[shield] Use secure software update mechanisms" >>
          [] c = "A09:2021" -> << "[chart] Implement comprehensive security logging",
                                  "[siren] Set up security monitoring and alerting",
                                  "[graph] Monitor for suspicious activities" >>
          [] c = "A10:2021" -> << "[globe] Validate and sanitize all URLs",
                                  "[forbidden] Implement URL whitelist for external requests",
                                  "[lock] Use network segmentation to limit SSRF impact" >> ]

\* faulty variant: a finding replaces the group of its category
RECURSIVE GroupOverwriting(_, _)
GroupOverwriting(fs, groups) ==
    IF fs = <<>> THEN groups
    ELSE LET f == Head(fs)
             category == f.owasp_category
         IN  GroupOverwriting(Tail(fs),
                [k \in DOMAIN groups \cup {category} |->
                    IF k = category THEN <<f>> ELSE groups[k]])

\* the loop of generate_owasp_report that groups self.findings by category:
\* a dict whose keys are the categories seen, each with its findings in order
RECURSIVE GroupByCategory(_, _)
GroupByCategory(fs, groups) ==
    IF fs = <<>> THEN groups
    ELSE LET f == Head(fs)
             category == f.owasp_category
             g1 == IF category \notin DOMAIN groups
                      THEN [k \in DOMAIN groups \cup {category} |->
                              IF k = category THEN <<>> ELSE groups[k]]
                      ELSE groups
             g2 == [g1 EXCEPT ![category] = Append(@, f)]
         IN  GroupByCategory(Tail(fs), g2)

EmptyDict == [k \in {} |-> <<>>]

\* owasp_categories.get(category, [])
DictGet(groups, category) ==
    IF category \in DOMAIN groups THEN groups[category] ELSE <<>>

\* faulty variant: only CRITICAL findings make a category non-compliant
CriticalOnlyFindings(category_findings) ==
    SelectSeq(category_findings, LAMBDA f : f.severity = "CRITICAL")

\* [f for f in category_findings if f['severity'] in ['CRITICAL', 'HIGH']]
CriticalHighFindings(category_findings) ==
    SelectSeq(category_findings, LAMBDA f : f.severity \in {"CRITICAL", "HIGH"})

\* the loop over category_names.keys() that counts compliant categories
RECURSIVE CountCompliant(_, _, _)
CountCompliant(groups, i, compliant_categories) ==
    IF i > Len(CategoryOrder) THEN compliant_categories
    ELSE LET category_findings == DictGet(groups, CategoryOrder[i])
             critical_high_findings == CriticalHighFindings(category_findings)
         IN  CountCompliant(groups, i + 1,
                 IF critical_high_findings = <<>>
                    THEN compliant_categories + 1
                    ELSE compliant_categories)

\* faulty variant: a finding of any severity makes its category one with issues
CategoriesWithAnyFinding(fs, acc) ==
    acc \cup { fs[i].owasp_category : i \in 1..Len(fs) }

\* the loop of generate_owasp_recommendations that fills categories_with_issues
RECURSIVE CategoriesWithIssues(_, _)
CategoriesWithIssues(fs, acc) ==
    IF fs = <<>> THEN acc
    ELSE CategoriesWithIssues(Tail(fs),
            IF Head(fs).severity \in {"CRITICAL", "HIGH"}
               THEN acc \cup {Head(fs).owasp_category}
               ELSE acc)

\* faulty variant: only the first bullet of each category is emitted
RECURSIVE ExtendFirstBullet(_, _, _)
ExtendFirstBullet(issues, i, recommendations) ==
    IF i > Len(CategoryOrder) THEN recommendations
    ELSE ExtendFirstBullet(issues, i + 1,
            IF CategoryOrder[i] \in issues
               THEN Append(recommendations, OwaspBullets[CategoryOrder[i]][1])
               ELSE recommendations)

\* the ten "if 'Axx:2021' in categories_with_issues: recommendations.extend" blocks
RECURSIVE ExtendRecommendations(_, _, _)
ExtendRecommendations(issues, i, recommendations) ==
    IF i > Len(CategoryOrder) THEN recommendations
    ELSE ExtendRecommendations(issues, i + 1,
            IF CategoryOrder[i] \in issues
               THEN recommendations \o OwaspBullets[CategoryOrder[i]]
               ELSE recommendations)

\* faulty variant: the bullets are emitted in the order the findings name their categories
RECURSIVE RecommendationsInFindingOrder(_, _, _)
RecommendationsInFindingOrder(fs, seen, recommendations) ==
    IF fs = <<>> THEN recommendations
    ELSE LET f == Head(fs)
             fresh == f.severity \in {"CRITICAL", "HIGH"} /\ f.owasp_category \notin seen
         IN  RecommendationsInFindingOrder(Tail(fs),
                 IF fresh THEN seen \cup {f.owasp_category} ELSE seen,
                 IF fresh THEN recommendations \o OwaspBullets[f.owasp_category]
                          ELSE recommendations)

owasp_recommendations_by_finding(fs) ==
    RecommendationsInFindingOrder(fs, {}, <<>>)

generate_owasp_recommendations(fs) ==
    ExtendRecommendations(CategoriesWithIssues(fs, {}), 1, <<>>)

\* compliance_score = (compliant_categories / total_categories) * 100 is a float;
\* for compliant_categories in 0..10 the float result is exactly the integer
\* 10 * compliant_categories, which is what the integer division below gives.
generate_owasp_report(fs) ==
    LET owasp_categories == GroupByCategory(fs, EmptyDict)
        compliant_categories == CountCompliant(owasp_categories, 1, 0)
        compliance_score == (compliant_categories * 100) \div total_categories
    IN  [ kind |-> "owasp",
          owasp_compliance_score |-> compliance_score,
          compliant_categories |-> compliant_categories,
          total_categories |-> total_categories,
          findings_by_category |-> owasp_categories,
          total_findings |-> Len(fs),
          findings |-> fs,
          recommendations |-> generate_owasp_recommendations(fs) ]

\* main() of owasp-top10-tests.py: "return 1" when a CRITICAL finding exists
OwaspExitCode(rep) ==
    LET critical_findings == SelectSeq(rep.findings, LAMBDA f : f.severity = "CRITICAL")
    IN  IF critical_findings /= <<>> THEN 1 ELSE 0

-----------------------------------------------------------------------------
(* SecurityScanner: scoring *)

\* faulty variant: the counters are kept between two calls
CarriedCounts ==
    IF report.kind = "scanner" THEN report.severity_counts ELSE [s \in Severities |-> 0]

ZeroCounts == [s \in Severities |-> 0]

\* faulty variant: INFO entries are not counted
RECURSIVE CountSeveritiesSkipInfo(_, _)
CountSeveritiesSkipInfo(vs, severity_counts) ==
    IF vs = <<>> THEN severity_counts
    ELSE CountSeveritiesSkipInfo(Tail(vs),
            IF Head(vs).severity = "INFO" THEN severity_counts
            ELSE [severity_counts EXCEPT ![Head(vs).severity] = @ + 1])

\* for vuln in self.vulnerabilities: severity_counts[vuln['severity']] += 1
RECURSIVE CountSeverities(_, _)
CountSeverities(vs, severity_counts) ==
    IF vs = <<>> THEN severity_counts
    ELSE CountSeverities(Tail(vs),
            [severity_counts EXCEPT ![Head(vs).severity] = @ + 1])

\* sum(severity_counts.values())
SumCounts(severity_counts) ==
    severity_counts["CRITICAL"] + severity_counts["HIGH"] + severity_counts["MEDIUM"]
        + severity_counts["LOW"] + severity_counts["INFO"]

\* faulty variant: an INFO entry costs one point
SecurityScorePenalisesInfo(severity_counts) ==
    Max(0, 100 - (severity_counts["CRITICAL"] * 10 + severity_counts["HIGH"] * 5
                  + severity_counts["MEDIUM"] * 2 + severity_counts["LOW"] * 1
                  + severity_counts["INFO"] * 1))

\* faulty variant: the score is not floored at 0
SecurityScoreNoFloor(severity_counts) ==
    100 - (severity_counts["CRITICAL"] * 10 + severity_counts["HIGH"] * 5
           + severity_counts["MEDIUM"] * 2 + severity_counts["LOW"] * 1)

SecurityScore(severity_counts) ==
    LET total_issues == SumCounts(severity_counts) - severity_counts["INFO"]
    IN  IF total_issues = 0 THEN 100
        ELSE LET weighted_score == severity_counts["CRITICAL"] * 10
                                   + severity_counts["HIGH"] * 5
                                   + severity_counts["MEDIUM"] * 2
                                   + severity_counts["LOW"] * 1
             IN  Max(0, 100 - weighted_score)

CriticalBlock ==
    << "[siren] URGENT: Address all CRITICAL vulnerabilities immediately",
       "[lock] Implement proper input validation and sanitization",
       "[shield] Enable JWT signature verification" >>

HighBlock ==
    << "[warning] Address HIGH severity vulnerabilities as priority",
       "[lock-key] Implement proper authorization checks",
       "[forbidden] Add query complexity and depth limiting" >>

GeneralBlock ==
    << "[magnifier] Disable GraphQL introspection in production",
       "[stopwatch] Implement rate limiting for all endpoints",
       "[shield] Add CSRF protection for mutations",
       "[memo] Sanitize all user inputs to prevent XSS",
       "[lock] Use parameterized queries to prevent SQL injection",
       "[chart] Implement comprehensive security monitoring",
       "[cycle] Regular security audits and penetration testing",
       "[books] Security training for development team" >>

\* faulty variant: the HIGH block comes before the CRITICAL block
RecommendationsHighFirst(vs) ==
    LET critical_issues == SelectSeq(vs, LAMBDA v : v.severity = "CRITICAL")
        high_issues == SelectSeq(vs, LAMBDA v : v.severity = "HIGH")
    IN  (IF high_issues /= <<>> THEN HighBlock ELSE <<>>)
        \o (IF critical_issues /= <<>> THEN CriticalBlock ELSE <<>>)
        \o GeneralBlock

generate_recommendations(vs) ==
    LET critical_issues == SelectSeq(vs, LAMBDA v : v.severity = "CRITICAL")
        high_issues == SelectSeq(vs, LAMBDA v : v.severity = "HIGH")
    IN  (IF critical_issues /= <<>> THEN CriticalBlock ELSE <<>>)
        \o (IF high_issues /= <<>> THEN HighBlock ELSE <<>>)
        \o GeneralBlock

generate_report(vs) ==
    LET severity_counts == CountSeverities(vs, ZeroCounts)
    IN  [ kind |-> "scanner",
          security_score |-> SecurityScore(severity_counts),
          severity_counts |-> severity_counts,
          total_vulnerabilities |-> Len(vs),
          vulnerabilities |-> vs,
          recommendations |-> generate_recommendations(vs) ]

\* main() of security-scanner.py: sys.exit(1) when CRITICAL > 0 or HIGH > 0,
\* otherwise main returns and the interpreter exits with status 0
ScannerExitCode(rep) ==
    IF rep.severity_counts["CRITICAL"] > 0 \/ rep.severity_counts["HIGH"] > 0
       THEN 1 ELSE 0

-----------------------------------------------------------------------------
(* Construction: __init__ of both classes *)

\* the command-line token: absent, a string that is no JWT, and JWTs (three
\* dot-separated parts): one whose header and payload decode, with alg HS256 and an
\* exp more than 24 hours away; one that decodes with alg RS256 and a near exp;
\* one whose parts are not base64 JSON
Tokens == {"none", "opaque", "jwt_hs256_long", "jwt_rs256_short", "jwt_undecodable"}

\* len(self.auth_token.split('.')) == 3
ThreeParts(tok) == tok \in {"jwt_hs256_long", "jwt_rs256_short", "jwt_undecodable"}
\* json.loads(base64.urlsafe_b64decode(part + '==')) succeeds
Decodes(tok) == tok \in {"jwt_hs256_long", "jwt_rs256_short"}
\* header.get('alg', '').upper() in ['NONE', 'HS256']
WeakAlg(tok) == tok = "jwt_hs256_long"
\* payload.get('exp', 0) - time.time() > 86400
LongExp(tok) == tok = "jwt_hs256_long"

BaseUrls == {"http://router", "https://router"}
\* self.base_url.startswith('http://')
IsPlainHttp(url) == url = "http://router"

Bearer(tok) == <<"Bearer", tok>>
\* f'Bearer {modified_token}'
ModifiedBearer(tok) == <<"Bearer", tok, "modified">>

\* self.session.headers after __init__: the two defaults, and Authorization when
\* a token was given
InitialHeaders(user_agent, tok) ==
    LET names == {"Content-Type", "User-Agent"}
                    \cup (IF tok /= "none" THEN {"Authorization"} ELSE {})
    IN  [h \in names |->
            CASE h = "Content-Type" -> <<"application/json">>
              [] h = "User-Agent" -> <<user_agent>>
              [] h = "Authorization" -> Bearer(tok)]

UserAgent(p) == IF p = "owasp" THEN "OWASP-Top10-Tester/1.0" ELSE "SecurityScanner/1.0"

\* header values are tuples of words; None is the empty tuple
NoHeaders == [h \in {} |-> <<>>]
NoneValue == <<>>

\* faulty variant: on equal keys the entry of a stays
OverlayKeepsDefaults(a, b) ==
    [h \in DOMAIN a \cup DOMAIN b |-> IF h \in DOMAIN a THEN a[h] ELSE b[h]]

\* dict.update: the entries of b over those of a
Overlay(a, b) ==
    [h \in DOMAIN a \cup DOMAIN b |-> IF h \in DOMAIN b THEN b[h] ELSE a[h]]

\* del d[name]
Without(d, name) == [h \in DOMAIN d \ {name} |-> d[h]]

\* make_graphql_request: request_headers = self.session.headers.copy();
\* if headers: request_headers.update(headers)
GraphqlRequestHeaders(hdrs, override) == Overlay(hdrs, override)

-----------------------------------------------------------------------------
(* The target's replies *)

\* most vocabulary words one scanned text holds
MaxHits == 2

(* A reply is what one request comes back with:                              *)
(*   status  "200", "403", "429", "500"; "conn_fail": the request raises    *)
(*           requests.ConnectionError; "hang": the request never returns     *)
(*   json    the body parses as a JSON object                                *)
(*   data    the 'data' member of that object, as the field F a check reads: *)
(*           "absent"       no 'data' key                                    *)
(*           "null"         {"data": null}                                   *)
(*           "no_field"     {"data": {}}                                     *)
(*           "field_null"   {"data": {F: null}}                              *)
(*           "bare"         F is an object with none of the members read     *)
(*           "no_evidence"  F has the members the detection reads, not those *)
(*                          the evidence string reads                        *)
(*           "full"         F has every member read                          *)
(*   errors  the object has an 'errors' list holding one error with message  *)
(*   hits    how many words of the check's vocabulary the scanned text (the  *)
(*           error message, the body, the Server header) holds               *)
(*   slow    the reply took longer than the check's time threshold           *)
DataShapes == {"absent", "null", "no_field", "field_null", "bare", "no_evidence", "full"}

Reply(status, json, data, errors, hits, slow) ==
    [status |-> status, json |-> json, data |-> data, errors |-> errors,
     hits |-> hits, slow |-> slow]

ConnFail == Reply("conn_fail", FALSE, "absent", FALSE, 0, FALSE)
Hang == Reply("hang", FALSE, "absent", FALSE, 0, FALSE)
NonJson(status) == Reply(status, FALSE, "absent", FALSE, 0, FALSE)

Replies ==
    {ConnFail, Hang}
    \cup { NonJson(st) : st \in {"200", "403", "429", "500"} }
    \cup { Reply("200", FALSE, "absent", FALSE, 0, TRUE) }
    \cup { Reply("200", TRUE, d, e, h, FALSE) :
             d \in DataShapes, e \in BOOLEAN, h \in 0..MaxHits }
    \cup { Reply("200", TRUE, d, e, 0, TRUE) : d \in {"no_field", "full"}, e \in BOOLEAN }
    \cup { Reply("403", TRUE, "absent", TRUE, h, FALSE) : h \in 0..1 }
    \cup { Reply("200", FALSE, "absent", FALSE, 1, FALSE) }

\* the uniform targets: unreachable; failing with HTTP 500; rate limiting
\* everything; rejecting every operation with a GraphQL error beside "data": null;
\* rejecting with an error that names the reason; executing every operation;
\* answering 200 with a body that is no JSON, with {"data": null}, and with
\* objects that lack the members the evidence strings read
Profiles ==
    { ConnFail,
      NonJson("500"),
      NonJson("429"),
      Reply("200", TRUE, "null", TRUE, 0, FALSE),
      Reply("200", TRUE, "absent", TRUE, 1, FALSE),
      Reply("200", TRUE, "full", FALSE, 0, FALSE),
      NonJson("200"),
      Reply("200", TRUE, "null", FALSE, 0, FALSE),
      Reply("200", TRUE, "no_evidence", FALSE, 0, FALSE) }

(* Python expressions over a response *)

\* response.status_code == 200
IsOk(r) == r.status = "200"
\* 'data' in data
HasData(r) == r.data /= "absent"
\* 'errors' in data
HasErrors(r) == r.errors

\* 'data' in data and data['data'].get(F):
\* None.get raises AttributeError when data is null
DataGet(r) ==
    CASE r.data = "absent" -> "falsy"
      [] r.data = "null" -> "raise"
      [] r.data \in {"no_field", "field_null"} -> "falsy"
      [] OTHER -> "truthy"

\* 'data' in data and data['data'].get(F, {}).get(M):
\* the default {} only replaces a missing F, so a null F raises as well
DataGetGet(r) ==
    CASE r.data = "absent" -> "falsy"
      [] r.data \in {"null", "field_null"} -> "raise"
      [] r.data \in {"no_field", "bare"} -> "falsy"
      [] OTHER -> "truthy"

\* 'data' in data and '__schema' in data['data']:
\* "in None" raises TypeError
SchemaIn(r) ==
    CASE r.data = "absent" -> "falsy"
      [] r.data = "null" -> "raise"
      [] r.data = "no_field" -> "falsy"
      [] OTHER -> "truthy"

-----------------------------------------------------------------------------
(* Test methods: what one segment of a test method does *)

(* A test method runs in segments: from its entry to its first request, and  *)
(* from the reply of one request to the sending of the next (or its end).    *)
(* An effect is what a segment does: the findings it logs, in order; whether *)
(* it sends another request ("await", at which step, with which locals and   *)
(* per-call headers), returns, or leaves the method with an exception; and   *)
(* the session headers it leaves behind.                                     *)

NoLocals == [i |-> 0]

Await(st, l, log) ==
    [kind |-> "await", step |-> st, loc |-> l, log |-> log,
     headers |-> session_headers, override |-> NoHeaders]
AwaitWith(st, l, log, override) ==
    [kind |-> "await", step |-> st, loc |-> l, log |-> log,
     headers |-> session_headers, override |-> override]
Return(log) ==
    [kind |-> "return", step |-> "idle", loc |-> NoLocals, log |-> log,
     headers |-> session_headers, override |-> NoHeaders]
Raise(log) ==
    [kind |-> "raise", step |-> "idle", loc |-> NoLocals, log |-> log,
     headers |-> session_headers, override |-> NoHeaders]
WithHeaders(eff, hdrs) == [eff EXCEPT !.headers = hdrs]

\* self.session.post / self.session.get raised
Failed(r) == r.status = "conn_fail"

\* response.status_code == 200 and response.json() returned
OkJson(r) == IsOk(r) /\ r.json

V(sev, title) == Vulnerability(sev, title)

-----------------------------------------------------------------------------
(* SecurityScanner test methods *)

\* request_count of test_rate_limiting: 100 in the source (line 401), scaled
request_count == 3

test_graphql_introspection(st, l, r) ==
    IF st = "idle" THEN Await("introspection", NoLocals, <<>>)
    ELSE IF Failed(r) THEN Raise(<<>>)
    ELSE IF OkJson(r) /\ SchemaIn(r) = "raise" THEN Raise(<<>>)
    ELSE IF OkJson(r) /\ SchemaIn(r) = "truthy"
         THEN \* len(data["data"]["__schema"]["types"])
              IF r.data = "full"
                 THEN Return(<<V("MEDIUM", "GraphQL Introspection Enabled")>>)
                 ELSE Raise(<<>>)
    ELSE Return(<<V("INFO", "GraphQL Introspection Disabled")>>)

\* test_query_depth_limiting and test_query_complexity_limiting have the same shape
LimitingTest(st, l, r, first, enabled_title, absent_title) ==
    IF st = "idle" THEN Await(first, NoLocals, <<>>)
    ELSE IF Failed(r) THEN Raise(<<>>)
    ELSE IF ~OkJson(r) THEN Return(<<>>)
    ELSE IF HasErrors(r) /\ r.hits > 0 THEN Return(<<V("INFO", enabled_title)>>)
    ELSE IF HasData(r) THEN Return(<<V("HIGH", absent_title)>>)
    ELSE Return(<<>>)

test_query_depth_limiting(st, l, r) ==
    LimitingTest(st, l, r, "deep_query",
                 "Query Depth Limiting Enabled", "No Query Depth Limiting")

test_query_complexity_limiting(st, l, r) ==
    LimitingTest(st, l, r, "complex_query",
                 "Query Complexity Limiting Enabled", "No Query Complexity Limiting")

test_rate_limiting(st, l, r) ==
    IF st = "idle"
       THEN Await("simple_query",
                  [i |-> 0, successful_requests |-> 0, rate_limited_requests |-> 0], <<>>)
    ELSE IF Failed(r) THEN Raise(<<>>)
    ELSE LET successful == l.successful_requests + (IF r.status = "200" THEN 1 ELSE 0)
             \* 403: 'rate' in str(data).lower() or 'limit' in ...; a body that
             \* does not parse is skipped by the bare except
             limited == l.rate_limited_requests
                          + (IF r.status = "429" \/ (r.status = "403" /\ r.json /\ r.hits > 0)
                                THEN 1 ELSE 0)
             l2 == [i |-> l.i + 1, successful_requests |-> successful,
                    rate_limited_requests |-> limited]
         IN  IF l2.i < request_count THEN Await("simple_query", l2, <<>>)
             ELSE IF limited > 0
                     THEN Return(<<V("INFO", "Rate Limiting Enabled")>>)
                     ELSE Return(<<V("MEDIUM", "No Rate Limiting Detected")>>)

test_authentication_bypass(st, l, r) ==
    IF st = "idle"
       THEN \* original_auth = headers.get('Authorization'); del headers['Authorization']
            LET original_auth == IF "Authorization" \in DOMAIN session_headers
                                    THEN session_headers["Authorization"] ELSE NoneValue
            IN  WithHeaders(Await("protected_query", [original_auth |-> original_auth], <<>>),
                            Without(session_headers, "Authorization"))
    ELSE IF Failed(r) THEN Raise(<<>>)
    ELSE LET \* if original_auth: self.session.headers['Authorization'] = original_auth
             restored == IF l.original_auth /= NoneValue
                            THEN Overlay(session_headers,
                                         [h \in {"Authorization"} |-> l.original_auth])
                            ELSE session_headers
             after ==
                IF ~OkJson(r) THEN Return(<<>>)
                ELSE IF DataGet(r) = "raise" THEN Raise(<<>>)
                ELSE IF DataGet(r) = "truthy"
                     THEN \* data["data"]["createReview"]["id"]
                          IF r.data = "full"
                             THEN Return(<<V("CRITICAL", "Authentication Bypass")>>)
                             ELSE Raise(<<>>)
                ELSE IF HasErrors(r) /\ r.hits > 0
                     THEN Return(<<V("INFO", "Authentication Required")>>)
                ELSE Return(<<>>)
         IN  WithHeaders(after, restored)

test_authorization_bypass(st, l, r) ==
    IF st = "idle" THEN Await("other_user_query", NoLocals, <<>>)
    ELSE IF Failed(r) THEN Raise(<<>>)
    ELSE IF ~OkJson(r) THEN Return(<<>>)
    ELSE IF DataGet(r) = "raise" THEN Raise(<<>>)
    ELSE IF DataGet(r) = "truthy" /\ r.data \in {"no_evidence", "full"}
         THEN Return(<<V("HIGH", "Authorization Bypass - Sensitive Data Exposure")>>)
    ELSE Return(<<>>)

\* len(sql_payloads); the last payload is the pg_sleep one
NumSqlPayloads == 5

test_sql_injection(st, l, r) ==
    IF st = "idle" THEN Await("sql_payload", [i |-> 1], <<>>)
    ELSE IF Failed(r) THEN Raise(<<>>)
    ELSE IF OkJson(r) /\ r.hits > 0
         THEN Return(<<V("CRITICAL", "SQL Injection Vulnerability")>>)
    ELSE IF OkJson(r) /\ l.i = NumSqlPayloads /\ r.slow
         THEN Return(<<V("CRITICAL", "Time-based SQL Injection")>>)
    ELSE IF l.i < NumSqlPayloads THEN Await("sql_payload", [i |-> l.i + 1], <<>>)
    ELSE Return(<<>>)

\* len(nosql_payloads)
NumNosqlPayloads == 5

test_nosql_injection(st, l, r) ==
    IF st = "idle" THEN Await("nosql_payload", [i |-> 1], <<>>)
    ELSE IF Failed(r) THEN Raise(<<>>)
    ELSE IF OkJson(r) /\ DataGet(r) = "raise" THEN Raise(<<>>)
    \* reviews = data['data']['reviews']['edges']: KeyError without 'edges'
    ELSE IF OkJson(r) /\ r.data = "bare" THEN Raise(<<>>)
    ELSE LET log == IF OkJson(r) /\ r.data = "full"
                       THEN <<V("HIGH", "Potential NoSQL Injection")>> ELSE <<>>
         IN  IF l.i < NumNosqlPayloads THEN Await("nosql_payload", [i |-> l.i + 1], log)
             ELSE Return(log)

\* len(xss_payloads)
NumXssPayloads == 5

test_xss_vulnerabilities(st, l, r) ==
    IF st = "idle" THEN Await("xss_payload", [i |-> 1], <<>>)
    ELSE IF Failed(r) THEN Raise(<<>>)
    ELSE IF OkJson(r) /\ DataGet(r) = "raise" THEN Raise(<<>>)
    \* the text echoes the payload, the evidence reads ["createReview"]["id"]
    ELSE IF OkJson(r) /\ r.data = "no_evidence" THEN Raise(<<>>)
    ELSE LET log == IF OkJson(r) /\ r.data = "full"
                       THEN <<V("HIGH", "Stored XSS Vulnerability")>> ELSE <<>>
         IN  IF l.i < NumXssPayloads THEN Await("xss_payload", [i |-> l.i + 1], log)
             ELSE Return(log)

\* len(invalid_queries)
NumInvalidQueries == 4

test_information_disclosure(st, l, r) ==
    IF st = "idle" THEN Await("invalid_query", [i |-> 1], <<>>)
    ELSE IF Failed(r) THEN Raise(<<>>)
    ELSE LET \* one finding for every sensitive pattern the message holds
             log == IF OkJson(r) /\ HasErrors(r)
                       THEN Rep(V("MEDIUM", "Information Disclosure in Error Messages"),
                                r.hits)
                       ELSE <<>>
         IN  IF l.i < NumInvalidQueries THEN Await("invalid_query", [i |-> l.i + 1], log)
             ELSE Return(log)

test_csrf_protection(st, l, r) ==
    IF st = "idle" THEN Await("get_mutation", NoLocals, <<>>)
    ELSE IF Failed(r) THEN Raise(<<>>)
    ELSE IF ~OkJson(r) THEN Return(<<>>)
    ELSE IF DataGet(r) = "raise" THEN Raise(<<>>)
    ELSE IF DataGet(r) = "truthy"
         THEN IF r.data = "full" THEN Return(<<V("HIGH", "CSRF Vulnerability")>>)
              ELSE Raise(<<>>)
    ELSE Return(<<>>)

test_dos_vulnerabilities(st, l, r) ==
    IF st = "idle" THEN Await("large_query", NoLocals, <<>>)
    ELSE IF Failed(r) THEN Raise(<<>>)
    ELSE IF IsOk(r) /\ r.slow
         THEN Return(<<V("MEDIUM", "Potential DoS via Resource Exhaustion")>>)
    ELSE Return(<<>>)

test_jwt_vulnerabilities(st, l, r) ==
    IF st = "idle"
       THEN IF auth_token = "none" THEN Return(<<V("INFO", "No JWT Token Provided")>>)
            ELSE IF ~ThreeParts(auth_token) THEN Return(<<>>)
            ELSE IF ~Decodes(auth_token)
                 THEN Return(<<V("INFO", "JWT Token Analysis Failed")>>)
            ELSE AwaitWith("modified_token", NoLocals, <<>>,
                           [h \in {"Authorization"} |-> ModifiedBearer(auth_token)])
    \* the request is inside "try: ... except Exception"
    ELSE IF Failed(r) THEN Return(<<V("INFO", "JWT Token Analysis Failed")>>)
    ELSE IF OkJson(r) /\ HasData(r)
         THEN Return(<<V("CRITICAL", "JWT Signature Not Verified")>>)
    ELSE Return(<<>>)

-----------------------------------------------------------------------------
(* OWASPTop10Tester test methods *)

F(cat, sev, title) == Finding(cat, sev, title)

\* len(test_ids) of test_a01_broken_access_control
NumTestIds == 3

test_a01_broken_access_control(st, l, r) ==
    IF st = "idle" THEN Await("admin_query", NoLocals, <<>>)
    ELSE IF Failed(r) THEN Raise(<<>>)
    ELSE IF st = "admin_query"
         THEN IF OkJson(r) /\ DataGet(r) = "raise" THEN Raise(<<>>)
              ELSE IF OkJson(r) /\ DataGet(r) = "truthy"
                   THEN \* data["data"]["moderateReview"]["id"]
                        IF r.data = "full"
                           THEN Await("other_user_data_query", NoLocals,
                                      <<F("A01:2021", "CRITICAL", "Vertical Privilege Escalation")>>)
                           ELSE Raise(<<>>)
              ELSE Await("other_user_data_query", NoLocals, <<>>)
    ELSE IF st = "other_user_data_query"
         THEN IF OkJson(r) /\ DataGet(r) = "raise" THEN Raise(<<>>)
              ELSE Await("direct_access_query", [i |-> 1, accessible_reviews |-> 0],
                         \* exposed_fields: the sensitive members the user object holds
                         IF OkJson(r) /\ r.data \in {"no_evidence", "full"}
                            THEN <<F("A01:2021", "HIGH", "Horizontal Privilege Escalation")>>
                            ELSE <<>>)
    ELSE \* st = "direct_access_query"
         IF OkJson(r) /\ DataGet(r) = "raise" THEN Raise(<<>>)
         ELSE LET accessible_reviews ==
                      l.accessible_reviews
                        + (IF OkJson(r) /\ DataGet(r) = "truthy" THEN 1 ELSE 0)
              IN  IF l.i < NumTestIds
                     THEN Await("direct_access_query",
                                [i |-> l.i + 1, accessible_reviews |-> accessible_reviews],
                                <<>>)
                  ELSE IF accessible_reviews > 0
                     THEN Return(<<F("A01:2021", "MEDIUM", "Insecure Direct Object References")>>)
                  ELSE Return(<<>>)

test_a02_cryptographic_failures(st, l, r) ==
    IF st = "idle"
       THEN Await("password_test_mutation", NoLocals,
                  (IF IsPlainHttp(base_url)
                      THEN <<F("A02:2021", "HIGH", "Unencrypted Communication")>> ELSE <<>>)
                  \o (IF auth_token /= "none" /\ ThreeParts(auth_token)
                         /\ Decodes(auth_token) /\ WeakAlg(auth_token)
                      THEN <<F("A02:2021", "MEDIUM", "Weak JWT Algorithm")>> ELSE <<>>))
    ELSE IF Failed(r) THEN Raise(<<>>)
    ELSE IF OkJson(r) /\ DataGetGet(r) = "raise" THEN Raise(<<>>)
    ELSE IF OkJson(r) /\ DataGetGet(r) = "truthy"
         THEN Return(<<F("A02:2021", "MEDIUM", "Weak Password Policy")>>)
    ELSE Return(<<>>)

\* len(sql_payloads), len(nosql_payloads), len(graphql_injection_payloads)
NumA03Sql == 4
NumA03Nosql == 4
NumA03Graphql == 3

test_a03_injection(st, l, r) ==
    IF st = "idle" THEN Await("sql", [i |-> 1], <<>>)
    ELSE IF Failed(r) THEN Raise(<<>>)
    ELSE IF st = "sql"
         THEN LET log == IF OkJson(r) /\ r.hits > 0
                            THEN <<F("A03:2021", "CRITICAL", "SQL Injection Vulnerability")>>
                            ELSE <<>>
              IN  IF l.i < NumA03Sql THEN Await("sql", [i |-> l.i + 1], log)
                  ELSE Await("nosql", [i |-> 1], log)
    ELSE IF st = "nosql"
         THEN IF OkJson(r) /\ DataGetGet(r) = "raise" THEN Raise(<<>>)
              ELSE LET log == IF OkJson(r) /\ DataGetGet(r) = "truthy"
                                 THEN <<F("A03:2021", "HIGH", "NoSQL Injection Vulnerability")>>
                                 ELSE <<>>
                   IN  IF l.i < NumA03Nosql THEN Await("nosql", [i |-> l.i + 1], log)
                       ELSE Await("graphql", [i |-> 1], log)
    ELSE \* st = "graphql": 'data' in data and ('password' in str(data) or ...)
         LET log == IF OkJson(r) /\ HasData(r) /\ r.hits > 0
                       THEN <<F("A03:2021", "HIGH", "GraphQL Injection Vulnerability")>>
                       ELSE <<>>
         IN  IF l.i < NumA03Graphql THEN Await("graphql", [i |-> l.i + 1], log)
             ELSE Return(log)

\* range(3) of the business-logic loop, range(5) of the thread loop
NumBusinessReviews == 3
NumThreads == 5

Workers == 1..NumThreads
NoThreads == [w \in Workers |-> "new"]

\* faulty variant: every recorded outcome counts as a success
CountOutcomes(bs) == Len(bs)

\* sum(race_condition_results)
RECURSIVE SumTrue(_)
SumTrue(bs) == IF bs = <<>> THEN 0 ELSE (IF Head(bs) THEN 1 ELSE 0) + SumTrue(Tail(bs))

\* faulty variant: one success is enough for the finding
MoreThanNone(successful_concurrent_reviews) == successful_concurrent_reviews > 0

\* if successful_concurrent_reviews > 1
RaceDetected(successful_concurrent_reviews) == successful_concurrent_reviews > 1

\* faulty variant: the append replaces the list, the earlier outcomes are lost
OverwriteOutcome(results, ok) == <<ok>>

\* race_condition_results.append(response.status_code == 200)
RecordOutcome(results, ok) == Append(results, ok)

\* faulty variant: join returns at once
NeverAlive(w) == FALSE

\* Thread.is_alive(): started and not terminated; thread.join() returns when it
\* is false
is_alive(w) == threads[w] \in {"running", "blocked"}

\* faulty variant: each thread is joined right after its start
JoinRightAfterStart(w) == "join"

\* the loop over thread.start() runs to its end before the loop over thread.join()
AfterStart(w) == IF w = NumThreads THEN "join" ELSE "start"

\* the local variable response of each create_review_thread, before its request
\* returned
NoResponses == [w \in Workers |-> "none"]

\* what create_review_thread reads of its response: response.status_code == 200
StatusClass(r) == IF r.status = "200" THEN "200" ELSE "rejected"

\* the sequential part of test_a04_insecure_design; the effect "threads" hands
\* over to the thread part
test_a04_insecure_design(st, l, r) ==
    IF st = "idle" THEN Await("business", [i |-> 1, successful_reviews |-> 0], <<>>)
    ELSE IF Failed(r) THEN Raise(<<>>)
    ELSE IF OkJson(r) /\ DataGet(r) = "raise" THEN Raise(<<>>)
    ELSE LET successful_reviews ==
                 l.successful_reviews
                   + (IF OkJson(r) /\ DataGet(r) = "truthy" THEN 1 ELSE 0)
         IN  IF l.i < NumBusinessReviews
                THEN Await("business",
                           [i |-> l.i + 1, successful_reviews |-> successful_reviews], <<>>)
             ELSE [ Await("start", [started |-> 0, joined |-> 0,
                                    race_condition_results |-> <<>>,
                                    response |-> NoResponses],
                          IF successful_reviews > 1
                             THEN <<F("A04:2021", "MEDIUM", "Business Logic Flaw")>>
                             ELSE <<>>)
                    EXCEPT !.kind = "threads" ]

\* len(default_creds)
NumDefaultCreds == 4

test_a05_security_misconfiguration(st, l, r) ==
    IF st = "idle" THEN Await("introspection_query", NoLocals, <<>>)
    ELSE IF Failed(r) THEN Raise(<<>>)
    ELSE IF st = "introspection_query"
         THEN IF OkJson(r) /\ SchemaIn(r) = "raise" THEN Raise(<<>>)
              ELSE IF OkJson(r) /\ SchemaIn(r) = "truthy"
                   THEN \* len(data["data"]["__schema"]["types"])
                        IF r.data = "full"
                           THEN Await("invalid_query", NoLocals,
                                      <<F("A05:2021", "MEDIUM", "GraphQL Introspection Enabled")>>)
                           ELSE Raise(<<>>)
              ELSE Await("invalid_query", NoLocals, <<>>)
    ELSE IF st = "invalid_query"
         THEN Await("default_creds", [i |-> 1],
                    \* one finding per error whose message holds a sensitive word
                    IF OkJson(r) /\ HasErrors(r) /\ r.hits > 0
                       THEN <<F("A05:2021", "LOW", "Information Disclosure in Error Messages")>>
                       ELSE <<>>)
    ELSE \* st = "default_creds"
         IF OkJson(r) /\ DataGetGet(r) = "raise" THEN Raise(<<>>)
         \* data["data"]["login"]["user"]["roles"]
         ELSE IF OkJson(r) /\ r.data = "no_evidence" THEN Raise(<<>>)
         ELSE LET log == IF OkJson(r) /\ r.data = "full"
                            THEN <<F("A05:2021", "CRITICAL", "Default Credentials")>>
                            ELSE <<>>
              IN  IF l.i < NumDefaultCreds THEN Await("default_creds", [i |-> l.i + 1], log)
                  ELSE Return(log)

\* len(vulnerable_endpoints)
NumEndpoints == 6

test_a06_vulnerable_components(st, l, r) ==
    IF st = "idle" THEN Await("base_url", NoLocals, <<>>)
    ELSE IF st = "base_url"
         THEN IF Failed(r) THEN Raise(<<>>)
              ELSE Await("endpoint", [i |-> 1],
                         \* the Server header holds a vulnerable pattern
                         IF r.hits > 0
                            THEN <<F("A06:2021", "MEDIUM", "Server Version Disclosure")>>
                            ELSE <<>>)
    ELSE \* st = "endpoint": inside try ... except requests.RequestException: pass
         LET log == IF ~Failed(r) /\ IsOk(r)
                       THEN <<F("A06:2021", "LOW", "Exposed Development Endpoint")>>
                       ELSE <<>>
         IN  IF l.i < NumEndpoints THEN Await("endpoint", [i |-> l.i + 1], log)
             ELSE Return(log)

\* range(10) of the brute-force loop
NumLoginAttempts == 10

\* faulty variant: one failed attempt is enough for the MEDIUM finding
AfterBruteForceAnyFailure(failed_attempts, log) ==
    LET log2 == IF failed_attempts > 0
                   THEN log \o <<F("A07:2021", "MEDIUM", "No Brute Force Protection")>>
                   ELSE log
    IN  IF auth_token /= "none" THEN Await("session_query", NoLocals, log2)
        ELSE Return(log2)

\* the code after the brute-force loop of test_a07: the MEDIUM finding, then the
\* session test when a token was given
AfterBruteForce(failed_attempts, log) ==
    LET log2 == IF failed_attempts = NumLoginAttempts
                   THEN log \o <<F("A07:2021", "MEDIUM", "No Brute Force Protection")>>
                   ELSE log
    IN  IF auth_token /= "none" THEN Await("session_query", NoLocals, log2)
        ELSE Return(log2)

test_a07_identification_authentication_failures(st, l, r) ==
    IF st = "idle" THEN Await("login", [i |-> 0, failed_attempts |-> 0], <<>>)
    ELSE IF Failed(r) THEN Raise(<<>>)
    ELSE IF st = "login"
         THEN IF OkJson(r) /\ ~HasErrors(r) /\ DataGetGet(r) = "raise" THEN Raise(<<>>)
              ELSE IF OkJson(r) /\ ~HasErrors(r) /\ DataGetGet(r) = "truthy"
                   THEN \* log_finding, then break
                        AfterBruteForce(l.failed_attempts,
                            <<F("A07:2021", "CRITICAL", "Authentication Bypass")>>)
              ELSE LET failed_attempts ==
                           l.failed_attempts + (IF OkJson(r) /\ HasErrors(r) THEN 1 ELSE 0)
                   IN  IF l.i + 1 < NumLoginAttempts
                          THEN Await("login",
                                     [i |-> l.i + 1, failed_attempts |-> failed_attempts],
                                     <<>>)
                          ELSE AfterBruteForce(failed_attempts, <<>>)
    ELSE \* st = "session_query"
         IF OkJson(r) /\ HasData(r) /\ ThreeParts(auth_token) /\ Decodes(auth_token)
            /\ LongExp(auth_token)
            THEN Return(<<F("A07:2021", "MEDIUM", "Long Token Expiration")>>)
            ELSE Return(<<>>)

test_a08_software_data_integrity_failures(st, l, r) ==
    IF st = "idle"
       THEN IF auth_token /= "none" /\ ThreeParts(auth_token)
               THEN AwaitWith("modified_signature", NoLocals, <<>>,
                              [h \in {"Authorization"} |-> ModifiedBearer(auth_token)])
               ELSE Await("create_review_mutation", NoLocals, <<>>)
    ELSE IF st = "modified_signature"
         THEN \* inside "try: ... except Exception: pass"
              Await("create_review_mutation", NoLocals,
                    IF ~Failed(r) /\ OkJson(r) /\ HasData(r)
                       THEN <<F("A08:2021", "CRITICAL", "JWT Signature Not Verified")>>
                       ELSE <<>>)
    ELSE \* st = "create_review_mutation"
         IF Failed(r) THEN Raise(<<>>)
         ELSE IF OkJson(r) /\ DataGet(r) = "raise" THEN Raise(<<>>)
         \* review.get('rating') == 10
         ELSE IF OkJson(r) /\ r.data \in {"no_evidence", "full"}
              THEN Return(<<F("A08:2021", "HIGH", "Data Validation Bypass")>>)
         ELSE Return(<<>>)

\* len(suspicious_queries) and range(50) of the rapid-request loop
NumSuspiciousQueries == 3
NumRapidRequests == 50

test_a09_security_logging_monitoring_failures(st, l, r) ==
    IF st = "idle" THEN Await("suspicious", [i |-> 1], <<>>)
    ELSE IF Failed(r) THEN Raise(<<>>)
    ELSE IF st = "suspicious"
         THEN IF l.i < NumSuspiciousQueries THEN Await("suspicious", [i |-> l.i + 1], <<>>)
              ELSE Await("rapid", [i |-> 0, rapid_requests |-> 0], <<>>)
    ELSE \* st = "rapid"
         IF r.status = "429"
            THEN \* log_finding, then break; rapid_requests stays below 50
                 Return(<<F("A09:2021", "INFO", "Rate Limiting Detected")>>)
         ELSE IF l.i + 1 < NumRapidRequests
            THEN Await("rapid", [i |-> l.i + 1, rapid_requests |-> l.rapid_requests + 1],
                       <<>>)
         ELSE IF l.rapid_requests + 1 = NumRapidRequests
            THEN Return(<<F("A09:2021", "MEDIUM", "No Rate Limiting Detected")>>)
         ELSE Return(<<>>)

\* len(ssrf_payloads)
NumSsrfPayloads == 5

test_a10_server_side_request_forgery(st, l, r) ==
    IF st = "idle" THEN Await("ssrf", [i |-> 1], <<>>)
    ELSE IF Failed(r) THEN Raise(<<>>)
    ELSE LET log == (IF OkJson(r) /\ HasErrors(r) /\ r.hits > 0
                        THEN <<F("A10:2021", "HIGH", "Server-Side Request Forgery (SSRF)")>>
                        ELSE <<>>)
                    \o (IF OkJson(r) /\ r.slow
                        THEN <<F("A10:2021", "MEDIUM", "Potential Time-based SSRF")>>
                        ELSE <<>>)
         IN  IF l.i < NumSsrfPayloads THEN Await("ssrf", [i |-> l.i + 1], log)
             ELSE Return(log)

-----------------------------------------------------------------------------
(* Operations shared by the specifications *)

\* OWASPTop10Tester.log_finding: self.findings.append(finding)
log_finding(cat, sev, title) ==
    findings' = Append(findings, Finding(cat, sev, title))

\* SecurityScanner.log_vulnerability: self.vulnerabilities.append(vulnerability)
log_vulnerability(sev, title) ==
    vulnerabilities' = Append(vulnerabilities, Vulnerability(sev, title))

\* faulty variant: generating the report empties the lists
GenerateReportConsumes ==
    /\ phase = "report"
    /\ report' = IF prog = "owasp" THEN generate_owasp_report(findings)
                                   ELSE generate_report(vulnerabilities)
    /\ phase' = "exit"
    /\ findings' = <<>>
    /\ vulnerabilities' = <<>>
    /\ UNCHANGED <<configVars, probeVars, exit_code>>

\* the last statement of run_owasp_top10_scan / run_full_scan
GenerateReport ==
    /\ phase = "report"
    /\ report' = IF prog = "owasp" THEN generate_owasp_report(findings)
                                   ELSE generate_report(vulnerabilities)
    /\ phase' = "exit"
    /\ UNCHANGED <<configVars, probeVars, findings, vulnerabilities, exit_code>>

\* the tail of main(): the exit status
MainExit ==
    /\ phase = "exit"
    /\ exit_code' = IF prog = "owasp" THEN OwaspExitCode(report)
                                      ELSE ScannerExitCode(report)
    /\ phase' = "done"
    /\ UNCHANGED <<configVars, probeVars, findings, vulnerabilities, report>>

-----------------------------------------------------------------------------
(* The dispatch loops: run_owasp_top10_scan and run_full_scan *)

\* len(test_methods)
NumTests == IF prog = "owasp" THEN 10 ELSE 13

\* what one request of the running test method may come back with: anything in
\* the test method under focus, the target's uniform reply elsewhere
ReplySet == IF focus = test_index THEN Replies ELSE {profile}

\* faulty variant: a test method that raised is called again
RetryAfterRaise(idx) == idx

\* faulty variant: an exception of a test method ends the loop
AbortAfterRaise(idx) == NumTests + 1

\* "except Exception as e: print(...)": the loop goes on with the next method
AfterRaise(idx) == idx + 1

\* faulty variant: new findings are put at the front of the list
LogAtFront(log) ==
    IF prog = "owasp"
       THEN findings' = log \o findings /\ UNCHANGED vulnerabilities
       ELSE vulnerabilities' = log \o vulnerabilities /\ UNCHANGED findings

\* the log_finding / log_vulnerability calls of one segment, in order
LogAll(log) ==
    IF prog = "owasp"
       THEN findings' = findings \o log /\ UNCHANGED vulnerabilities
       ELSE vulnerabilities' = vulnerabilities \o log /\ UNCHANGED findings

\* the for loop after test_method() returned or raised
LoopOn(next_index) ==
    /\ test_index' = next_index
    /\ phase' = IF next_index > NumTests THEN "report" ELSE "scan"
    /\ step' = "idle"
    /\ loc' = NoLocals

\* one segment of the running test method takes effect
Apply(eff) ==
    /\ LogAll(eff.log)
    /\ session_headers' = eff.headers
    /\ invoked' = IF step = "idle" THEN Append(invoked, test_index) ELSE invoked
    /\ CASE eff.kind = "await" ->
              /\ step' = eff.step
              /\ loc' = eff.loc
              /\ request_headers' = GraphqlRequestHeaders(eff.headers, eff.override)
              /\ UNCHANGED <<test_index, phase, dispatch_errors>>
         [] eff.kind = "threads" ->
              /\ step' = eff.step
              /\ loc' = eff.loc
              /\ UNCHANGED <<request_headers, test_index, phase, dispatch_errors>>
         [] eff.kind = "return" ->
              /\ LoopOn(test_index + 1)
              /\ UNCHANGED <<request_headers, dispatch_errors>>
         [] eff.kind = "raise" ->
              /\ LoopOn(AfterRaise(test_index))
              /\ dispatch_errors' = Append(dispatch_errors, test_index)
              /\ UNCHANGED request_headers
    /\ UNCHANGED <<configVars, threads, hung, report, exit_code>>

\* self.session.post(...) without a timeout never returns when the target does
\* not answer
Blocked ==
    /\ hung' = TRUE
    /\ UNCHANGED <<configVars, session_headers, request_headers, findings,
                   vulnerabilities, phase, test_index, step, loc, threads, invoked,
                   dispatch_errors, report, exit_code>>

\* test_methods: the idx-th entry of the list of program p, run for one segment
test_methods(p, idx, st, l, r) ==
    CASE p = "owasp" /\ idx = 1 -> test_a01_broken_access_control(st, l, r)
      [] p = "owasp" /\ idx = 2 -> test_a02_cryptographic_failures(st, l, r)
      [] p = "owasp" /\ idx = 3 -> test_a03_injection(st, l, r)
      [] p = "owasp" /\ idx = 4 -> test_a04_insecure_design(st, l, r)
      [] p = "owasp" /\ idx = 5 -> test_a05_security_misconfiguration(st, l, r)
      [] p = "owasp" /\ idx = 6 -> test_a06_vulnerable_components(st, l, r)
      [] p = "owasp" /\ idx = 7 -> test_a07_identification_authentication_failures(st, l, r)
      [] p = "owasp" /\ idx = 8 -> test_a08_software_data_integrity_failures(st, l, r)
      [] p = "owasp" /\ idx = 9 -> test_a09_security_logging_monitoring_failures(st, l, r)
      [] p = "owasp" /\ idx = 10 -> test_a10_server_side_request_forgery(st, l, r)
      [] p = "scanner" /\ idx = 1 -> test_graphql_introspection(st, l, r)
      [] p = "scanner" /\ idx = 2 -> test_query_depth_limiting(st, l, r)
      [] p = "scanner" /\ idx = 3 -> test_query_complexity_limiting(st, l, r)
      [] p = "scanner" /\ idx = 4 -> test_rate_limiting(st, l, r)
      [] p = "scanner" /\ idx = 5 -> test_authentication_bypass(st, l, r)
      [] p = "scanner" /\ idx = 6 -> test_authorization_bypass(st, l, r)
      [] p = "scanner" /\ idx = 7 -> test_sql_injection(st, l, r)
      [] p = "scanner" /\ idx = 8 -> test_nosql_injection(st, l, r)
      [] p = "scanner" /\ idx = 9 -> test_xss_vulnerabilities(st, l, r)
      [] p = "scanner" /\ idx = 10 -> test_information_disclosure(st, l, r)
      [] p = "scanner" /\ idx = 11 -> test_csrf_protection(st, l, r)
      [] p = "scanner" /\ idx = 12 -> test_dos_vulnerabilities(st, l, r)
      [] p = "scanner" /\ idx = 13 -> test_jwt_vulnerabilities(st, l, r)

\* test_method(): the entry segment of the idx-th method of program p, or the
\* segment after the reply to its request in flight
Call(p, idx) ==
    /\ phase = "scan" /\ prog = p /\ test_index = idx /\ ~hung
    /\ step \notin {"start", "join"}
    /\ IF step = "idle" THEN Apply(test_methods(p, idx, step, loc, profile))
       ELSE \E r \in ReplySet :
               IF r.status = "hang" THEN Blocked
               ELSE Apply(test_methods(p, idx, step, loc, r))

Call_test_a01_broken_access_control ==
    Call("owasp", 1)
Call_test_a02_cryptographic_failures ==
    Call("owasp", 2)
Call_test_a03_injection ==
    Call("owasp", 3)
Call_test_a04_insecure_design ==
    Call("owasp", 4)
Call_test_a05_security_misconfiguration ==
    Call("owasp", 5)
Call_test_a06_vulnerable_components ==
    Call("owasp", 6)
Call_test_a07_identification_authentication_failures ==
    Call("owasp", 7)
Call_test_a08_software_data_integrity_failures ==
    Call("owasp", 8)
Call_test_a09_security_logging_monitoring_failures ==
    Call("owasp", 9)
Call_test_a10_server_side_request_forgery ==
    Call("owasp", 10)

Call_test_graphql_introspection == Call("scanner", 1)
Call_test_query_depth_limiting == Call("scanner", 2)
Call_test_query_complexity_limiting == Call("scanner", 3)
Call_test_rate_limiting == Call("scanner", 4)
Call_test_authentication_bypass == Call("scanner", 5)
Call_test_authorization_bypass == Call("scanner", 6)
Call_test_sql_injection == Call("scanner", 7)
Call_test_nosql_injection == Call("scanner", 8)
Call_test_xss_vulnerabilities == Call("scanner", 9)
Call_test_information_disclosure == Call("scanner", 10)
Call_test_csrf_protection == Call("scanner", 11)
Call_test_dos_vulnerabilities == Call("scanner", 12)
Call_test_jwt_vulnerabilities == Call("scanner", 13)

(* The thread part of test_a04_insecure_design *)

\* "for thread in threads: thread.start()": the next thread starts and sends its
\* request
StartThread ==
    /\ phase = "scan" /\ prog = "owasp" /\ test_index = 4 /\ step = "start" /\ ~hung
    /\ LET w == loc.started + 1
       IN  /\ threads' = [threads EXCEPT ![w] = "running"]
           /\ loc' = [loc EXCEPT !.started = w]
           /\ step' = AfterStart(w)
           /\ request_headers' = GraphqlRequestHeaders(session_headers, NoHeaders)
    /\ UNCHANGED <<configVars, session_headers, findings, vulnerabilities, phase,
                   test_index, hung, invoked, dispatch_errors, report, exit_code>>

\* create_review_thread after its request: the append, or the end of the thread
\* by the exception of the request (threading prints it, the main thread does
\* not see it); a request that never returns leaves the thread blocked
create_review_thread(w) ==
    /\ phase = "scan" /\ threads[w] = "running"
    /\ \E r \in ReplySet :
          IF r.status = "hang" THEN
              /\ threads' = [threads EXCEPT ![w] = "blocked"]
              /\ UNCHANGED loc
          ELSE IF Failed(r) THEN
              /\ threads' = [threads EXCEPT ![w] = "raised"]
              /\ UNCHANGED loc
          ELSE
              /\ threads' = [threads EXCEPT ![w] = "ended"]
              /\ loc' = [loc EXCEPT !.response[w] = StatusClass(r),
                                    !.race_condition_results =
                                        RecordOutcome(@, r.status = "200")]
    /\ UNCHANGED <<configVars, session_headers, request_headers, findings,
                   vulnerabilities, phase, test_index, step, hung, invoked,
                   dispatch_errors, report, exit_code>>

ThreadReplies == \E w \in Workers : create_review_thread(w)

\* "for thread in threads: thread.join()", and after the last join the sum and
\* the finding
JoinThread ==
    /\ phase = "scan" /\ prog = "owasp" /\ test_index = 4 /\ step = "join" /\ ~hung
    /\ LET w == loc.joined + 1
       IN  /\ ~is_alive(w)
           /\ IF w < NumThreads
                 THEN /\ loc' = [loc EXCEPT !.joined = w]
                      /\ UNCHANGED <<session_headers, request_headers, findings,
                                     vulnerabilities, phase, test_index, step, threads,
                                     invoked, dispatch_errors>>
                 ELSE /\ LogAll(IF RaceDetected(SumTrue(loc.race_condition_results))
                                   THEN <<F("A04:2021", "MEDIUM",
                                            "Race Condition Vulnerability")>>
                                   ELSE <<>>)
                      /\ LoopOn(test_index + 1)
                      /\ threads' = NoThreads
                      /\ UNCHANGED <<session_headers, request_headers, invoked,
                                     dispatch_errors>>
    /\ UNCHANGED <<configVars, hung, report, exit_code>>

-----------------------------------------------------------------------------
(* Spec: a whole scan of either program against a target *)

\* the scans checked: every token, scheme and uniform target without a focus, and
\* one configuration for each test method under focus
Init ==
    /\ prog \in {"owasp", "scanner"}
    /\ auth_token \in Tokens
    /\ base_url \in (IF prog = "owasp" THEN BaseUrls ELSE {"https://router"})
    /\ profile \in Profiles
    /\ focus \in 0..NumTests
    /\ focus /= 0 => /\ auth_token = "jwt_hs256_long"
                     /\ base_url = "https://router"
                     /\ profile = ConnFail
    /\ session_headers = InitialHeaders(UserAgent(prog), auth_token)
    /\ request_headers = NoHeaders
    /\ findings = <<>>
    /\ vulnerabilities = <<>>
    /\ phase = "scan"
    /\ test_index = 1
    /\ step = "idle"
    /\ loc = NoLocals
    /\ threads = NoThreads
    /\ hung = FALSE
    /\ invoked = <<>>
    /\ dispatch_errors = <<>>
    /\ report = NoReport
    /\ exit_code = NoExit

Next ==
    \/ Call_test_a01_broken_access_control
    \/ Call_test_a02_cryptographic_failures
    \/ Call_test_a03_injection
    \/ Call_test_a04_insecure_design
    \/ StartThread
    \/ ThreadReplies
    \/ JoinThread
    \/ Call_test_a05_security_misconfiguration
    \/ Call_test_a06_vulnerable_components
    \/ Call_test_a07_identification_authentication_failures
    \/ Call_test_a08_software_data_integrity_failures
    \/ Call_test_a09_security_logging_monitoring_failures
    \/ Call_test_a10_server_side_request_forgery
    \/ Call_test_graphql_introspection
    \/ Call_test_query_depth_limiting
    \/ Call_test_query_complexity_limiting
    \/ Call_test_rate_limiting
    \/ Call_test_authentication_bypass
    \/ Call_test_authorization_bypass
    \/ Call_test_sql_injection
    \/ Call_test_nosql_injection
    \/ Call_test_xss_vulnerabilities
    \/ Call_test_information_disclosure
    \/ Call_test_csrf_protection
    \/ Call_test_dos_vulnerabilities
    \/ Call_test_jwt_vulnerabilities
    \/ GenerateReport
    \/ MainExit

Spec == Init /\ [][Next]_vars

-----------------------------------------------------------------------------
(* SpecScore: the scoring functions on every bounded list of findings *)

InitScore ==
    /\ prog \in {"owasp", "scanner"}
    /\ findings = <<>>
    /\ \E s \in Severities, k \in 0..MaxBulk :
          vulnerabilities = IF prog = "scanner"
                               THEN Rep(Vulnerability(s, "bulk"), k) ELSE <<>>
    /\ phase = "collect"
    /\ report = NoReport
    /\ exit_code = NoExit
    /\ base_url = "https://router"
    /\ auth_token = "none"
    /\ profile = NonJson("500")
    /\ focus = 0
    /\ session_headers = InitialHeaders(UserAgent(prog), "none")
    /\ request_headers = NoHeaders
    /\ test_index = 1
    /\ step = "idle"
    /\ loc = NoLocals
    /\ threads = NoThreads
    /\ hung = FALSE
    /\ invoked = <<>>
    /\ dispatch_errors = <<>>

ScoreLogFinding ==
    /\ phase = "collect" /\ prog = "owasp"
    /\ Len(findings) < MaxFindings
    /\ \E cat \in Categories, sev \in Severities : log_finding(cat, sev, "t")
    /\ UNCHANGED <<configVars, probeVars, vulnerabilities, phase, report, exit_code>>

ScoreLogVulnerability ==
    /\ phase = "collect" /\ prog = "scanner"
    /\ Len(SelectSeq(vulnerabilities, LAMBDA v : v.title = "t")) < MaxVulns
    /\ \E sev \in Severities : log_vulnerability(sev, "t")
    /\ UNCHANGED <<configVars, probeVars, findings, phase, report, exit_code>>

ScoreScanComplete ==
    /\ phase = "collect"
    /\ phase' = "report"
    /\ UNCHANGED <<configVars, probeVars, findings, vulnerabilities, report, exit_code>>

\* a second call of generate_owasp_report / generate_report on the same object
GenerateReportAgain ==
    /\ phase = "exit"
    /\ report' = IF prog = "owasp" THEN generate_owasp_report(findings)
                                   ELSE generate_report(vulnerabilities)
    /\ phase' = "again"
    /\ UNCHANGED <<configVars, probeVars, findings, vulnerabilities, exit_code>>

NextScore ==
    \/ ScoreLogFinding
    \/ ScoreLogVulnerability
    \/ ScoreScanComplete
    \/ GenerateReport
    \/ GenerateReportAgain

SpecScore == InitScore /\ [][NextScore]_vars

-----------------------------------------------------------------------------
(* Helpers of the properties *)

\* how many entries of a list of findings have the given severity
NumSeverity(fs, sev) == Cardinality({ i \in 1..Len(fs) : fs[i].severity = sev })

\* the specification's weights: CRITICAL=10, HIGH=5, MEDIUM=2, LOW=1, INFO=0
WeightedSum(fs) ==
    10 * NumSeverity(fs, "CRITICAL") + 5 * NumSeverity(fs, "HIGH")
        + 2 * NumSeverity(fs, "MEDIUM") + 1 * NumSeverity(fs, "LOW")
        + 0 * NumSeverity(fs, "INFO")

\* the categories without any HIGH or CRITICAL finding
CompliantSet(fs) ==
    { c \in Categories :
        \A i \in 1..Len(fs) :
            ~(fs[i].owasp_category = c /\ fs[i].severity \in {"HIGH", "CRITICAL"}) }

\* all rearrangements of a list
PermutationsOf(fs) ==
    { [i \in 1..Len(fs) |-> fs[p[i]]] :
        p \in { q \in [1..Len(fs) -> 1..Len(fs)] :
                  \A i, j \in 1..Len(fs) : q[i] = q[j] => i = j } }

\* the list with positions i and j exchanged
Swapped(fs, i, j) ==
    [k \in 1..Len(fs) |-> IF k = i THEN fs[j] ELSE IF k = j THEN fs[i] ELSE fs[k]]

\* lists up to this length are compared under every permutation, longer ones
\* under every exchange of two positions
MaxPermLen == 3

Rearrangements(fs) ==
    IF Len(fs) <= MaxPermLen THEN PermutationsOf(fs)
    ELSE { Swapped(fs, i, j) : i, j \in 1..Len(fs) }

OwaspScoring(rep) ==
    << rep.owasp_compliance_score, rep.compliant_categories, rep.recommendations >>

ScannerScoring(rep) ==
    << rep.security_score, rep.severity_counts, rep.recommendations >>

-----------------------------------------------------------------------------
(* Properties *)

\* C1: generate_owasp_report counts a category as compliant iff it has no HIGH or
\* CRITICAL finding, for each of A01..A10, and owasp_compliance_score is
\* (compliant categories / 10) * 100.
C1_ComplianceCount ==
    report.kind = "owasp" =>
        /\ report.compliant_categories = Cardinality(CompliantSet(findings))
        /\ report.owasp_compliance_score * 10 = Cardinality(CompliantSet(findings)) * 100

\* a report over a HIGH finding and a MEDIUM finding of another category
C1_Witness ==
    /\ report.kind = "owasp"
    /\ Len(findings) = 2
    /\ findings[1].severity = "HIGH" /\ findings[2].severity = "MEDIUM"
    /\ findings[1].owasp_category /= findings[2].owasp_category
    /\ report.compliant_categories = 9

\* C2: security_score = max(0, 100 - (10*CRITICAL + 5*HIGH + 2*MEDIUM + LOW)),
\* it lies in 0..100, and the "no non-INFO issue" case agrees with the formula.
C2_SecurityScore ==
    report.kind = "scanner" =>
        /\ report.security_score = Max(0, 100 - WeightedSum(vulnerabilities))
        /\ report.security_score \in 0..100

\* a report whose weighted sum exceeds 100, so that the floor applies
C2_Witness ==
    /\ report.kind = "scanner"
    /\ WeightedSum(vulnerabilities) > 100
    /\ report.security_score = 0

\* the list the running program collects
Collected == IF prog = "owasp" THEN findings ELSE vulnerabilities

\* a target reply that is an expected failure: the request fails to connect, an
\* HTTP error status, or a GraphQL error payload
ExpectedFailure(r) ==
    \/ r.status \in {"conn_fail", "403", "429", "500"}
    \/ r.status = "200" /\ r.json /\ r.errors

\* a malformed HTTP-200 reply: the body is no JSON, or it lacks expected members
Malformed200(r) ==
    /\ r.status = "200" /\ ~r.errors
    /\ ~r.json \/ r.data \in {"null", "field_null", "bare", "no_evidence"}

\* C3: the exit code is 0 if the findings hold no CRITICAL and no HIGH finding,
\* and nonzero otherwise, for both programs.
C3_ExitCode ==
    phase = "done" =>
        (exit_code = 0 <=>
            ~\E i \in 1..Len(Collected) : Collected[i].severity \in {"CRITICAL", "HIGH"})

\* C4: an exception of a test method is caught at the dispatch loop: the step
\* that catches it adds no finding and goes on with the next method of the list;
\* the methods are invoked in the order of the list, all of them have been invoked
\* when the loop ends, and the report is generated after it.
C4_ExceptionCaughtAtDispatch ==
    /\ [](invoked = [i \in 1..Len(invoked) |-> i])
    /\ [](phase \in {"report", "exit", "done"} => Len(invoked) = NumTests)
    /\ [](phase \in {"exit", "done"} => report /= NoReport)
    /\ [][dispatch_errors' /= dispatch_errors =>
             /\ findings' = findings /\ vulnerabilities' = vulnerabilities
             /\ test_index' = test_index + 1
             /\ phase' = (IF test_index = NumTests THEN "report" ELSE "scan")]_vars

\* a finished scan whose first test method raised, with every method invoked, a
\* finding logged by a later method, and the report generated
C4_Witness ==
    /\ phase = "done"
    /\ dispatch_errors /= <<>> /\ dispatch_errors[1] = 1
    /\ Len(invoked) = NumTests
    /\ Collected /= <<>>
    /\ report /= NoReport

\* C5: a request that never returns does not stop the scan: as long as the
\* program has not ended, it can take a further step.
C5_ScanGoesOnAfterHang == phase /= "done" => ENABLED Next

\* C6: whenever the dispatch loop is between two test methods, the session's
\* default headers are those set at construction.
C6_ContextUnchanged ==
    step = "idle" => session_headers = InitialHeaders(UserAgent(prog), auth_token)

\* C7: against a target that answers every request with the same expected
\* failure, no test method leaves with an exception.
C7_NoRaiseOnExpectedFailure ==
    (focus = 0 /\ ExpectedFailure(profile)) => dispatch_errors = <<>>

\* C8: against a target that answers every request with the same malformed
\* HTTP-200 reply, no exception leaves a test method.
C8_MalformedIsNoDetection ==
    (focus = 0 /\ Malformed200(profile)) => dispatch_errors = <<>>


\* the worker threads whose create request the target answered with HTTP 200
Accepted == { w \in Workers : loc.response[w] = "200" }

\* the join loop is running and every worker thread has terminated
AllTerminated == step = "join" /\ \A w \in Workers : threads[w] \in {"ended", "raised"}

\* C11: once the five workers have terminated, the success count of the race
\* harness is 5 when the target accepted all five creations and 1 when it accepted
\* exactly one of them, whatever the order in which the workers ran.
C11_RaceSuccessCount ==
    AllTerminated =>
        /\ (\A w \in Workers : loc.response[w] = "200")
               => SumTrue(loc.race_condition_results) = NumThreads
        /\ Cardinality(Accepted) = 1 => SumTrue(loc.race_condition_results) = 1

\* the five workers have returned, the target accepted the creation of one worker
\* that was not the first to record its outcome, and rejected the other four
C11_Witness ==
    /\ AllTerminated
    /\ \A w \in Workers : threads[w] = "ended"
    /\ Cardinality(Accepted) = 1
    /\ loc.race_condition_results[3]
    /\ SumTrue(loc.race_condition_results) = 1

\* the strings of a list
Range(seq) == { seq[i] : i \in 1..Len(seq) }

\* C12: the recommendations of the OWASP report are exactly the remediation
\* bullets of the categories that hold a HIGH or CRITICAL finding: all bullets of
\* each such category, and no bullet of any other category.
C12_RecommendationsByCategory ==
    report.kind = "owasp" =>
        /\ Range(report.recommendations)
              = UNION { Range(OwaspBullets[c]) : c \in Categories \ CompliantSet(findings) }
        /\ \A c \in CompliantSet(findings) :
              Range(OwaspBullets[c]) \cap Range(report.recommendations) = {}

\* a report over a CRITICAL finding and a MEDIUM finding of another category: the
\* three bullets of the first category are the recommendations
C12_Witness ==
    /\ report.kind = "owasp"
    /\ Len(findings) = 2
    /\ findings[1].severity = "CRITICAL" /\ findings[2].severity = "MEDIUM"
    /\ findings[1].owasp_category = "A08:2021"
    /\ findings[2].owasp_category = "A01:2021"
    /\ report.recommendations = OwaspBullets["A08:2021"]

\* the position of a recommendation string among the 44 strings of the two
\* scripts in lexicographic (code point) order of the source strings, where the
\* bracketed word stands for the emoji the source string begins with
LexRank(s) ==
    CASE s = "[lock] Implement proper access control checks for all operations" -> 27
      [] s = "[lock-key] Use role-based access control (RBAC) consistently" -> 25
      [] s = "[shield] Validate user permissions at the API level" -> 44
      [] s = "[lock-key] Enforce HTTPS for all communications" -> 22
      [] s = "[key] Use strong cryptographic algorithms (AES-256, RSA-2048+)" -> 26
      [] s = "[shield] Implement proper key management" -> 41
      [] s = "[syringe] Use parameterized queries to prevent SQL injection" -> 8
      [] s = "[shield] Implement input validation and sanitization" -> 40
      [] s = "[magnifier] Use GraphQL query complexity analysis" -> 21
      [] s = "[crane] Implement proper business logic validation" -> 7
      [] s = "[cycle] Add concurrency controls for critical operations" -> 16
      [] s = "[clipboard] Conduct threat modeling for business processes" -> 12
      [] s = "[gear] Disable GraphQL introspection in production" -> 3
      [] s = "[wrench] Remove verbose error messages" -> 31
      [] s = "[shield] Implement security headers and configurations" -> 42
      [] s = "[package] Keep all dependencies up to date" -> 15
      [] s = "[magnifier] Regular vulnerability scanning of components" -> 20
      [] s = "[forbidden] Remove unused dependencies and features" -> 36
      [] s = "[lock-key] Implement strong authentication mechanisms" -> 24
      [] s = "[shield] Add brute force protection" -> 38
      [] s = "[clock] Use appropriate session timeouts" -> 1
      [] s = "[check] Implement JWT signature verification" -> 5
      [] s = "[magnifier] Add data integrity checks" -> 18
      [] s = "[shield] Use secure software update mechanisms" -> 43
      [] s = "[chart] Implement comprehensive security logging" -> 10
      [] s = "[siren] Set up security monitoring and alerting" -> 32
      [] s = "[graph] Monitor for suspicious activities" -> 9
      [] s = "[globe] Validate and sanitize all URLs" -> 6
      [] s = "[forbidden] Implement URL whitelist for external requests" -> 35
      [] s = "[lock] Use network segmentation to limit SSRF impact" -> 29
      [] s = "[siren] URGENT: Address all CRITICAL vulnerabilities immediately" -> 33
      [] s = "[lock] Implement proper input validation and sanitization" -> 28
      [] s = "[shield] Enable JWT signature verification" -> 39
      [] s = "[warning] Address HIGH severity vulnerabilities as priority" -> 4
      [] s = "[lock-key] Implement proper authorization checks" -> 23
      [] s = "[forbidden] Add query complexity and depth limiting" -> 34
      [] s = "[magnifier] Disable GraphQL introspection in production" -> 19
      [] s = "[stopwatch] Implement rate limiting for all endpoints" -> 2
      [] s = "[shield] Add CSRF protection for mutations" -> 37
      [] s = "[memo] Sanitize all user inputs to prevent XSS" -> 14
      [] s = "[lock] Use parameterized queries to prevent SQL injection" -> 30
      [] s = "[chart] Implement comprehensive security monitoring" -> 11
      [] s = "[cycle] Regular security audits and penetration testing" -> 17
      [] s = "[books] Security training for development team" -> 13

\* the list is in lexicographic order
Sorted(seq) == \A i \in 1..(Len(seq) - 1) : LexRank(seq[i]) <= LexRank(seq[i + 1])

\* no string occurs twice in the list
NoDuplicates(seq) == \A i, j \in 1..Len(seq) : seq[i] = seq[j] => i = j

\* C13: the recommendation list of every report holds no string twice and is in
\* lexicographic order.
C13_DedupedAndSorted ==
    report.kind /= "none" =>
        /\ NoDuplicates(report.recommendations)
        /\ Sorted(report.recommendations)

\* C14: a report over zero findings has compliance score 100, security score 100
\* and an empty recommendations list.
C14_ZeroFindings ==
    /\ (report.kind = "owasp" /\ findings = <<>>) =>
          /\ report.owasp_compliance_score = 100
          /\ report.recommendations = <<>>
    /\ (report.kind = "scanner" /\ vulnerabilities = <<>>) =>
          /\ report.security_score = 100
          /\ report.recommendations = <<>>

\* C15: when the only finding is one CRITICAL finding of the injection category
\* A03:2021, the compliance score is 90 with 9 of 10 categories compliant and the
\* recommendations include the three injection bullets; the security score of a
\* report over one CRITICAL finding is 90.
C15_SingleCriticalInjection ==
    /\ (/\ report.kind = "owasp"
        /\ Len(findings) = 1
        /\ findings[1].owasp_category = "A03:2021"
        /\ findings[1].severity = "CRITICAL") =>
          /\ report.owasp_compliance_score = 90
          /\ report.compliant_categories = 9
          /\ report.total_categories = 10
          /\ Range(OwaspBullets["A03:2021"]) \subseteq Range(report.recommendations)
          /\ Cardinality(Range(OwaspBullets["A03:2021"])) = 3
    /\ (/\ report.kind = "scanner"
        /\ Len(vulnerabilities) = 1
        /\ vulnerabilities[1].severity = "CRITICAL") =>
          report.security_score = 90

\* the OWASP report over exactly one CRITICAL finding of A03:2021
C15_Witness ==
    /\ report.kind = "owasp"
    /\ Len(findings) = 1
    /\ findings[1].owasp_category = "A03:2021"
    /\ findings[1].severity = "CRITICAL"
    /\ report.owasp_compliance_score = 90
    /\ Len(report.recommendations) = 3

\* no worker thread of the race probe is started and not yet terminated
NoThreadRunning == \A w \in Workers : threads[w] \notin {"running", "blocked"}

\* C16: the report is created exactly once per scan and only after every probe
\* has finished: the step that creates it is the first to do so, it happens when
\* the dispatch loop is past its last test method with every method invoked and no
\* worker thread running; the loop never leaves a test method while a worker
\* thread runs; and the report exists once main has passed the scan.
C16_ReportOnceAfterAllProbes ==
    /\ [][report' /= report =>
             /\ report = NoReport
             /\ phase = "report" /\ step = "idle"
             /\ test_index = NumTests + 1
             /\ Len(invoked) = NumTests
             /\ NoThreadRunning]_vars
    /\ [][test_index' /= test_index => NoThreadRunning]_vars
    /\ [](report /= NoReport <=> phase \in {"exit", "done"})

\* the OWASP report exists and holds the finding of the race probe, whose five
\* worker threads ran
C16_Witness ==
    /\ prog = "owasp" /\ phase = "exit"
    /\ report /= NoReport
    /\ \E i \in 1..Len(findings) : findings[i].title = "Race Condition Vulnerability"

\* the scoring fields of a report
ScoringFields(rep) ==
    IF rep.kind = "owasp"
       THEN << rep.owasp_compliance_score, rep.compliant_categories, rep.total_findings,
               rep.recommendations >>
       ELSE << rep.security_score, rep.severity_counts, rep.total_vulnerabilities,
               rep.recommendations >>

C18_AllStartedBeforeAnyJoin ==
    step \in {"start", "join"} =>
        /\ loc.joined > 0 => loc.started = NumThreads
        /\ step = "join" => \A w \in Workers : threads[w] /= "new"

\* the five create requests are in flight at once and no thread has been joined
C18_Witness ==
    /\ step = "join"
    /\ loc.joined = 0
    /\ \A w \in Workers : threads[w] = "running"

\* the worker threads whose request returned
Returned == { w \in Workers : threads[w] = "ended" }

\* C19: a worker whose request raises does not disturb the batch: in the thread
\* part of the race probe the result list holds exactly one outcome for every
\* worker whose request returned (as many True as requests answered with 200) and
\* none for a worker that raised; the step in which a worker raises changes no
\* other worker; and no step of the thread part hands an exception to the
\* dispatch loop.
C19_WorkerFailuresTolerated ==
    /\ [](step \in {"start", "join"} =>
            /\ Len(loc.race_condition_results) = Cardinality(Returned)
            /\ Cardinality({ i \in 1..Len(loc.race_condition_results) :
                                loc.race_condition_results[i] })
                  = Cardinality(Accepted)
            /\ \A w \in Workers : threads[w] = "raised" => loc.response[w] = "none"
            /\ Accepted \subseteq Returned)
    /\ [][\A w \in Workers :
             (threads[w] = "running" /\ threads'[w] = "raised") =>
                 /\ \A v \in Workers \ {w} : threads'[v] = threads[v]
                 /\ loc' = loc /\ step' = step /\ findings' = findings]_vars
    /\ [][(step \in {"start", "join"}) => dispatch_errors' = dispatch_errors]_vars

\* every worker has terminated, two by a network error and three with an answer,
\* and the main thread is at its last join
C19_Witness ==
    /\ AllTerminated
    /\ loc.joined = NumThreads - 1
    /\ Cardinality({ w \in Workers : threads[w] = "raised" }) = 2
    /\ threads[1] = "raised"
    /\ Len(loc.race_condition_results) = 3
    /\ Cardinality(Accepted) = 2

\* how many findings of the list are the race finding
RaceCount(fs) ==
    Cardinality({ i \in 1..Len(fs) : fs[i].title = "Race Condition Vulnerability" })

\* C20: the finding 'Race Condition Vulnerability' is logged exactly when more
\* than one of the five concurrent requests was answered with HTTP 200: the step
\* that ends the race probe happens with all five workers terminated and appends
\* the finding in that case and nothing otherwise; no other step logs it, so it is
\* logged at most once; and no step inside the thread part touches the findings.
C20_RaceFinding ==
    /\ [][(step = "join" /\ step' = "idle") =>
             /\ AllTerminated
             /\ findings' = IF Cardinality(Accepted) > 1
                               THEN Append(findings,
                                           Finding("A04:2021", "MEDIUM",
                                                   "Race Condition Vulnerability"))
                               ELSE findings]_vars
    /\ [][RaceCount(findings') /= RaceCount(findings) =>
             step = "join" /\ step' = "idle"]_vars
    /\ [][(step \in {"start", "join"} /\ step' \in {"start", "join"}) =>
             findings' = findings]_vars
    /\ [](RaceCount(findings) <= 1)

\* the race probe has ended with the race finding and without the business-logic
\* finding, against a target that answered the requests of the probe freely
C20_Witness ==
    /\ prog = "owasp" /\ focus = 4
    /\ test_index = 5 /\ step = "idle"
    /\ findings /= <<>>
    /\ findings[Len(findings)]
          = Finding("A04:2021", "MEDIUM", "Race Condition Vulnerability")
    /\ \A i \in 1..Len(findings) : findings[i].title /= "Business Logic Flaw"

\* the rate-limiting findings the scan has logged so far
RateLimitTitles ==
    {"Rate Limiting Enabled", "Rate Limiting Detected", "No Rate Limiting Detected"}

RateLimitFindings == SelectSeq(Collected, LAMBDA f : f.title \in RateLimitTitles)

\* index of the rate-limiting probe in test_methods
RateLimitProbe == IF prog = "owasp" THEN 9 ELSE 4

\* the rate-limiting probe was invoked and returned without an exception
RateLimitProbeReturned ==
    /\ test_index > RateLimitProbe
    /\ RateLimitProbe \notin Range(dispatch_errors)

\* C21: against a target that answers every request alike, a rate-limiting probe
\* that returned normally has logged exactly one rate-limiting finding: the INFO
\* one when the requests were rate-limited (429), and the MEDIUM 'No Rate
\* Limiting Detected' one only when the requests succeeded (HTTP 200).
C21_RateLimitFinding ==
    (focus = 0 /\ RateLimitProbeReturned) =>
        /\ Len(RateLimitFindings) = 1
        /\ profile.status = "429" => RateLimitFindings[1].severity = "INFO"
        /\ RateLimitFindings[1].title = "No Rate Limiting Detected" =>
              /\ RateLimitFindings[1].severity = "MEDIUM"
              /\ profile.status = "200"

\* the target rejected the request: an HTTP error status, or a GraphQL error
\* payload that carries no data
RejectedReply(r) ==
    \/ r.status \in {"403", "429", "500"}
    \/ r.status = "200" /\ r.json /\ r.errors /\ r.data \in {"absent", "null"}

\* the target accepted the request: HTTP 200 with data and no error
AcceptedReply(r) == r.status = "200" /\ r.json /\ ~r.errors /\ r.data /= "absent"

Logged(sevs, titles) ==
    \E i \in 1..Len(Collected) :
        Collected[i].severity \in sevs /\ Collected[i].title \in titles

\* index of the JWT signature probe in test_methods, and whether it sends the
\* tampered token
JwtProbe == IF prog = "owasp" THEN 8 ELSE 13
JwtProbeSends == IF prog = "owasp" THEN ThreeParts(auth_token) ELSE Decodes(auth_token)

DepthTitles == {"Query Depth Limiting Enabled", "No Query Depth Limiting"}
JwtTitles == {"JWT Signature Not Verified", "JWT Token Analysis Failed",
              "No JWT Token Provided"}

\* C22: against a target that answers every request alike, once the depth probe
\* and the JWT signature probe have run, a rejected deep query or tampered token
\* has left an INFO finding of the probe, and an accepted one has left a
\* HIGH/CRITICAL finding of the probe.
C22_NeverSilent ==
    focus = 0 =>
      /\ (prog = "scanner" /\ test_index > 2) =>
            /\ RejectedReply(profile) => Logged({"INFO"}, DepthTitles)
            /\ AcceptedReply(profile) => Logged({"HIGH", "CRITICAL"}, DepthTitles)
      /\ (test_index > JwtProbe /\ JwtProbeSends) =>
            /\ RejectedReply(profile) => Logged({"INFO"}, JwtTitles)
            /\ AcceptedReply(profile) => Logged({"HIGH", "CRITICAL"}, JwtTitles)

\* position of a category in the registration order A01..A10
CatIndex(c) == CHOOSE i \in 1..Len(CategoryOrder) : CategoryOrder[i] = c

CategoriesInOrder(fs) ==
    \A i, j \in 1..Len(fs) :
        i < j => CatIndex(fs[i].owasp_category) <= CatIndex(fs[j].owasp_category)

\* what a step added at the end of the findings list
NewFindings == SubSeq(findings', Len(findings) + 1, Len(findings'))

\* C23: the findings list of the OWASP tester always has its categories in
\* non-decreasing registration order A01..A10, and every step adds findings only
\* at the end of the list and only of the category of the probe that is running,
\* so that the findings of one probe stand together in the order it logged them.
C23_DispatchOrder ==
    /\ [](prog = "owasp" => CategoriesInOrder(findings))
    /\ [][(prog = "owasp") =>
            /\ findings' = findings \o NewFindings
            /\ \A i \in 1..Len(NewFindings) :
                  NewFindings[i].owasp_category = CategoryOrder[test_index]]_vars

\* two findings of one probe are followed by a finding of a later probe
C23_Witness ==
    /\ prog = "owasp" /\ Len(findings) >= 3
    /\ findings[1].owasp_category = findings[2].owasp_category
    /\ findings[1].title /= findings[2].title
    /\ CatIndex(findings[3].owasp_category) > CatIndex(findings[2].owasp_category)

IsPrefix(s, t) == Len(s) <= Len(t) /\ SubSeq(t, 1, Len(s)) = s

\* C24: the findings list is append-only: in every step of a scan the previous
\* list is a prefix of the new one, also in the step in which a probe raises and
\* in the step that generates the report, and the report carries the list as it
\* then stands.
C24_AppendOnly ==
    [][/\ IsPrefix(findings, findings')
       /\ IsPrefix(vulnerabilities, vulnerabilities')
       /\ (phase = "report" /\ phase' = "exit") =>
             /\ prog = "owasp" => report'.findings = findings
             /\ prog = "scanner" => report'.vulnerabilities = vulnerabilities]_vars

\* a probe that raised had logged a finding, and the report holds that finding
C24_Witness ==
    /\ prog = "owasp" /\ report.kind = "owasp"
    /\ 1 \in Range(dispatch_errors)
    /\ Len(report.findings) > 0
    /\ report.findings[1].owasp_category = "A01:2021"

\* the steps whose request carries headers={'Authorization': modified token}
OverrideSteps == {"modified_token", "modified_signature"}

\* C25: a request sent with a header override carries the session's default
\* headers with the overriding Authorization in place of the default one, the
\* step that sends it leaves the session's default headers as they were, and the
\* next request, sent without an override, carries the session's defaults with
\* the original Authorization header.
C25_OverrideOnlyThatCall ==
    [][/\ (step = "idle" /\ step' \in OverrideSteps) =>
             /\ DOMAIN request_headers' = DOMAIN session_headers \cup {"Authorization"}
             /\ request_headers'["Authorization"] = ModifiedBearer(auth_token)
             /\ \A h \in DOMAIN session_headers \ {"Authorization"} :
                   request_headers'[h] = session_headers[h]
             /\ session_headers' = session_headers
       /\ (step = "modified_signature" /\ step' = "create_review_mutation") =>
             /\ session_headers' = session_headers
             /\ request_headers' = session_headers
             /\ request_headers'["Authorization"] = Bearer(auth_token)]_vars

\* the request after the one with the tampered token is in flight
C25_Witness ==
    /\ prog = "owasp" /\ test_index = 8 /\ step = "create_review_mutation"
    /\ ThreeParts(auth_token)
    /\ request_headers["Authorization"] = Bearer(auth_token)

\* the sizes of the groups of a findings_by_category dict, summed over A01..A10
RECURSIVE GroupSizes(_, _)
GroupSizes(groups, i) ==
    IF i > Len(CategoryOrder) THEN 0
    ELSE (IF CategoryOrder[i] \in DOMAIN groups THEN Len(groups[CategoryOrder[i]]) ELSE 0)
         + GroupSizes(groups, i + 1)

\* C26: in every OWASP report findings_by_category is a partition of the findings
\* list: its keys are categories A01..A10, the group of a category holds exactly
\* the findings of that category, every finding is in the group of its own
\* category, the group sizes sum to total_findings = len(findings), and every
\* finding has one of the five severities.
C26_Partition ==
    report.kind = "owasp" =>
        LET groups == report.findings_by_category
            fs == report.findings
        IN  /\ DOMAIN groups \subseteq Categories
            /\ \A c \in DOMAIN groups :
                  groups[c] = SelectSeq(fs, LAMBDA f : f.owasp_category = c)
            /\ \A i \in 1..Len(fs) :
                  /\ fs[i].owasp_category \in DOMAIN groups
                  /\ fs[i].owasp_category \in Categories
                  /\ fs[i].severity \in Severities
            /\ GroupSizes(groups, 1) = report.total_findings
            /\ report.total_findings = Len(fs)

\* a report with two groups, one of them with two findings
C26_Witness ==
    /\ report.kind = "owasp"
    /\ Cardinality(DOMAIN report.findings_by_category) >= 2
    /\ \E c \in DOMAIN report.findings_by_category :
          Len(report.findings_by_category[c]) >= 2

\* the step appended one entry to the list of the program
AppendedOne(old, new) == Len(new) = Len(old) + 1 /\ SubSeq(new, 1, Len(old)) = old

\* C27: a step that appends a finding never increases the score a report of the
\* list would carry (security_score of the scanner, owasp_compliance_score of the
\* OWASP tester), and leaves it as it is when the finding is INFO.
C27_ScoresMonotone ==
    [][/\ (prog = "scanner" /\ AppendedOne(vulnerabilities, vulnerabilities')) =>
             LET before == generate_report(vulnerabilities).security_score
                 after == generate_report(vulnerabilities').security_score
             IN  /\ after <= before
                 /\ vulnerabilities'[Len(vulnerabilities')].severity = "INFO"
                       => after = before
       /\ (prog = "owasp" /\ AppendedOne(findings, findings')) =>
             LET before == generate_owasp_report(findings).owasp_compliance_score
                 after == generate_owasp_report(findings').owasp_compliance_score
             IN  /\ after <= before
                 /\ findings'[Len(findings')].severity = "INFO" => after = before]_vars

\* a report whose list ends with an INFO entry after a CRITICAL one: the score
\* is below 100 and is the score of the list without the INFO entry
C27_Witness ==
    /\ report.kind = "scanner" /\ Len(vulnerabilities) >= 2
    /\ vulnerabilities[Len(vulnerabilities)].severity = "INFO"
    /\ vulnerabilities[Len(vulnerabilities) - 1].severity = "CRITICAL"
    /\ report.security_score < 100
    /\ report.security_score
          = generate_report(SubSeq(vulnerabilities, 1, Len(vulnerabilities) - 1)).security_score

\* C28: the recommendations of a scanner report are, in this order, the three
\* entries of the CRITICAL block exactly when the list holds a CRITICAL entry, the
\* three entries of the HIGH block exactly when it holds a HIGH entry, and the
\* eight general recommendations in every case; the length is 8, 11 or 14.
C28_RecommendationBlocks ==
    report.kind = "scanner" =>
        LET recs == report.recommendations
            c == IF NumSeverity(report.vulnerabilities, "CRITICAL") > 0 THEN 3 ELSE 0
            h == IF NumSeverity(report.vulnerabilities, "HIGH") > 0 THEN 3 ELSE 0
        IN  /\ Len(recs) = c + h + 8
            /\ Len(recs) \in {8, 11, 14}
            /\ c = 3 => SubSeq(recs, 1, 3) = CriticalBlock
            /\ h = 3 => SubSeq(recs, c + 1, c + 3) = HighBlock
            /\ SubSeq(recs, c + h + 1, c + h + 8) = GeneralBlock
            /\ c = 0 => \A i \in 1..Len(recs) : recs[i] \notin Range(CriticalBlock)
            /\ h = 0 => \A i \in 1..Len(recs) : recs[i] \notin Range(HighBlock)

\* a report over a list with a CRITICAL and a HIGH entry: 14 recommendations
C28_Witness ==
    /\ report.kind = "scanner"
    /\ NumSeverity(report.vulnerabilities, "CRITICAL") > 0
    /\ NumSeverity(report.vulnerabilities, "HIGH") > 0
    /\ Len(report.recommendations) = 14

HasFinding(title) == \E i \in 1..Len(findings) : findings[i].title = title

NewTitles == { NewFindings[i].title : i \in 1..Len(NewFindings) }

\* the brute-force loop of test_a07 is running: loc.i attempts have returned
\* and one more is in flight
InLoginLoop == prog = "owasp" /\ test_index = 7 /\ step = "login"

\* the brute-force part of test_a07 is over
PastLoginLoop ==
    prog = "owasp" /\ (test_index > 7 \/ (test_index = 7 /\ step = "session_query"))

\* C29: the brute-force probe of A07 sends at most 10 login attempts; the step
\* that logs CRITICAL 'Authentication Bypass' ends the loop; 'Authentication
\* Bypass' and 'No Brute Force Protection' are never both logged; the MEDIUM
\* finding is logged only by the step after the tenth attempt when the nine
\* before it all failed, and, against a target that answers every request
\* alike, exactly when that answer is HTTP 200 with a GraphQL errors payload.
C29_BruteForce ==
    /\ [](/\ InLoginLoop =>
                /\ loc.i \in 0..9
                /\ loc.failed_attempts \in 0..loc.i
          /\ ~(HasFinding("Authentication Bypass") /\ HasFinding("No Brute Force Protection"))
          /\ (focus = 0 /\ PastLoginLoop) =>
                (HasFinding("No Brute Force Protection")
                    <=> (profile.status = "200" /\ profile.json /\ profile.errors)))
    /\ [][InLoginLoop =>
            /\ "Authentication Bypass" \in NewTitles => step' /= "login"
            /\ (step' = "login" /\ ~hung') => loc'.i = loc.i + 1
            /\ "No Brute Force Protection" \in NewTitles =>
                  loc.i = 9 /\ loc.failed_attempts = 9]_vars

\* ten login attempts with arbitrary answers have all failed
C29_Witness ==
    /\ prog = "owasp" /\ focus = 7 /\ PastLoginLoop
    /\ HasFinding("No Brute Force Protection")

\* a request of the scan never returned
RequestHangs == hung \/ \E w \in Workers : threads[w] = "blocked"

\* how far main has come: the phase, the test method, the request of the test
\* method in program order, and the turn of the loop around that request (for
\* the thread part: threads started, joined and no longer running)
PhaseRank ==
    CASE phase = "scan" -> 0 [] phase = "report" -> 1 [] phase = "exit" -> 2
      [] phase = "done" -> 3

StepRank ==
    CASE step = "idle" -> 0
      [] step \in {"other_user_data_query", "invalid_query", "nosql", "start",
                   "endpoint", "session_query", "create_review_mutation", "rapid"} -> 2
      [] step \in {"direct_access_query", "graphql", "default_creds", "join"} -> 3
      [] OTHER -> 1

Turn ==
    IF "started" \in DOMAIN loc
       THEN loc.started + loc.joined
            + Cardinality({ w \in Workers : threads[w] \in {"ended", "raised", "blocked"} })
       ELSE IF "i" \in DOMAIN loc THEN loc.i ELSE 0

Position == <<PhaseRank, test_index, StepRank, Turn>>

\* lexicographic order on positions
Before(p, q) ==
    \E k \in 1..4 : p[k] < q[k] /\ \A j \in 1..(k - 1) : p[j] = q[j]

\* C30: a scan in which every request returns or raises terminates with a
\* report: every step in which a request returns or raises, or main moves on,
\* takes the scan to a later position, and the positions are bounded (the loop
\* turns by the largest fixed count, 50), so every run is finite; the test
\* methods are invoked one after the other, none twice; the race probe is left
\* through its join loop only when all five worker threads were joined and have
\* ended; as long as no request hangs, the dispatch loop and the tail of main
\* can take a step; the step after the loop, which has no condition, creates the
\* report; and main ends with a report.
C30_Terminates ==
    /\ [][hung' = hung => Before(Position, Position')]_vars
    /\ [](/\ test_index \in 1..(NumTests + 1)
          /\ Turn \in 0..NumRapidRequests
          /\ \A i, j \in 1..Len(invoked) : i < j => invoked[i] < invoked[j])
    /\ [][(step = "join" /\ test_index' /= test_index) =>
             /\ loc.joined = NumThreads - 1
             /\ \A w \in Workers : threads[w] \in {"ended", "raised"}]_vars
    /\ []((~RequestHangs /\ phase \in {"scan", "exit"}) => ENABLED Next)
    /\ [][phase = "report" => (phase' = "exit" /\ report' /= NoReport)]_vars
    /\ [](phase = "done" => report /= NoReport)

\* an OWASP scan whose race probe ran its threads has ended with a report
C30_Witness ==
    /\ prog = "owasp" /\ phase = "done" /\ report /= NoReport
    /\ ~RequestHangs
    /\ Len(invoked) = NumTests
    /\ 4 \notin Range(dispatch_errors)
    /\ HasFinding("Race Condition Vulnerability")

\* C9: the scoring outputs are the same for every rearrangement of the findings.
C9_OrderIndependent ==
    /\ report.kind = "owasp" =>
          \A P \in Rearrangements(findings) :
              OwaspScoring(generate_owasp_report(P)) = OwaspScoring(report)
    /\ report.kind = "scanner" =>
          \A P \in Rearrangements(vulnerabilities) :
              ScannerScoring(generate_report(P)) = ScannerScoring(report)

\* a report over two HIGH/CRITICAL findings whose categories are out of order
C9_Witness ==
    /\ report.kind = "owasp"
    /\ Len(findings) = 2
    /\ findings[1].owasp_category = "A07:2021" /\ findings[1].severity = "CRITICAL"
    /\ findings[2].owasp_category = "A03:2021" /\ findings[2].severity = "HIGH"
    /\ Len(report.recommendations) = 6

\* C10: the values of severity_counts sum to total_vulnerabilities, the number of
\* log_vulnerability calls made.
C10_CountsSumToTotal ==
    report.kind = "scanner" =>
        /\ SumCounts(report.severity_counts) = report.total_vulnerabilities
        /\ report.total_vulnerabilities = Len(vulnerabilities)

\* a report over vulnerabilities of three severities, INFO among them
C10_Witness ==
    /\ report.kind = "scanner"
    /\ report.severity_counts["INFO"] >= 1
    /\ report.severity_counts["CRITICAL"] >= 1
    /\ report.severity_counts["LOW"] >= 1
    /\ report.total_vulnerabilities >= 3

=============================================================================
